---- MODULE Spec2Model ----
(***************************************************************************)
(* A model of twmb/chkjson: the goto-driven validator Valid, the          *)
(* span-copying compactor packAny behind AppendCompact, the in-place      *)
(* compactor compact behind Compact, and the stack-based compactor behind *)
(* AppendCompactJSONP.  Bytes are their integer codes, cursors are        *)
(* 0-based as in the Go source, and every engine advances one labelled    *)
(* block (one goto target, one method body) per step.                     *)
(***************************************************************************)
EXTENDS Integers, Sequences, FiniteSets, TLC

\* The byte codes the source names as character literals.
Ch ==
  [ tab |-> 9, lf |-> 10, cr |-> 13, us |-> 31, sp |-> 32, quote |-> 34,
    plus |-> 43, comma |-> 44, minus |-> 45, dot |-> 46, slash |-> 47,
    zero |-> 48, one |-> 49, two |-> 50, eight |-> 56, nine |-> 57,
    colon |-> 58, A |-> 65, E |-> 69, F |-> 70, lbracket |-> 91,
    bslash |-> 92, rbracket |-> 93, a |-> 97, b |-> 98, e |-> 101,
    f |-> 102, l |-> 108, n |-> 110, r |-> 114, s |-> 115, t |-> 116,
    u |-> 117, z |-> 122, lbrace |-> 123, rbrace |-> 125, del |-> 127,
    x80 |-> 128, xa8 |-> 168, xa9 |-> 169, xe2 |-> 226 ]

\* src[i] of the Go source for a 0-based index i.
At(b, i) == b[i + 1]

\* b[lo:hi] of the Go source (0-based, hi exclusive).
Slice(b, lo, hi) == [k \in 1..(hi - lo) |-> b[lo + k]]

Max(x, y) == IF x >= y THEN x ELSE y

---------------------------------------------------------------------------
\* Character classes (chkjson.go).

\* isSpace without the tab.
isSpaceNoTab(c) == c = Ch.sp \/ c = Ch.cr \/ c = Ch.lf

\* isSpace with the vertical tab and the form feed.
isSpaceWide(c) ==
  c <= Ch.sp /\ (c = Ch.sp \/ c = Ch.tab \/ c = Ch.cr \/ c = Ch.lf \/ c = 11 \/ c = 12)

isSpace(c) == c <= Ch.sp /\ (c = Ch.sp \/ c = Ch.tab \/ c = Ch.cr \/ c = Ch.lf)

isNum(c) == Ch.zero <= c /\ c <= Ch.nine

isNat(c) == Ch.one <= c /\ c <= Ch.nine

isE(c) == c = Ch.e \/ c = Ch.E

isHex(c) == isNum(c) \/ (Ch.a <= c /\ c <= Ch.f) \/ (Ch.A <= c /\ c <= Ch.F)

\* The bytes a backslash may be followed by, besides u.
isEscChar(c) == c \in {Ch.b, Ch.f, Ch.n, Ch.r, Ch.t, Ch.bslash, Ch.slash, Ch.quote}

---------------------------------------------------------------------------
\* parseStateStack: an inline array of StackBase entries plus an overflow
\* slice.  base holds the live prefix base[0:end], so end = Len(base).

parseObjKey == "parseObjKey"
parseObjVal == "parseObjVal"
parseArrVal == "parseArrVal"

StackBase == 32

EmptyStack == [base |-> <<>>, ext |-> <<>>]

\* push going to the overflow slice one entry early.
pushEarly(st, s) ==
  IF Len(st.base) < StackBase - 1
    THEN [st EXCEPT !.base = Append(@, s)]
    ELSE [st EXCEPT !.ext = Append(@, s)]

push(st, s) ==
  IF Len(st.base) < StackBase
    THEN [st EXCEPT !.base = Append(@, s)]
    ELSE [st EXCEPT !.ext = Append(@, s)]

\* pop on an empty stack indexes base[-1]: popOK is the bounds check.
popOK(st) == Len(st.ext) > 0 \/ Len(st.base) > 0

top(st) ==
  IF Len(st.ext) > 0 THEN st.ext[Len(st.ext)] ELSE st.base[Len(st.base)]

\* pop taking from the inline array while it holds anything.
popBaseFirst(st) ==
  IF Len(st.base) > 0
    THEN [st EXCEPT !.base = SubSeq(@, 1, Len(@) - 1)]
    ELSE [st EXCEPT !.ext = SubSeq(@, 1, Len(@) - 1)]

\* pop leaving the entry on the stack.
popNothing(st) == st

pop(st) ==
  IF Len(st.ext) > 0
    THEN [st EXCEPT !.ext = SubSeq(@, 1, Len(@) - 1)]
    ELSE [st EXCEPT !.base = SubSeq(@, 1, Len(@) - 1)]

replace(st, s) ==
  IF Len(st.ext) > 0
    THEN [st EXCEPT !.ext[Len(st.ext)] = s]
    ELSE [st EXCEPT !.base[Len(st.base)] = s]

\* empty answering false whatever the stack holds.
emptyNever(st) == FALSE

empty(st) == Len(st.base) = 0

---------------------------------------------------------------------------
\* The shared scanning loops.

\* The first index j >= at with a non-space byte, or Len(b): where the
\* "for p.at < len(p.in)" space-skipping loops stop.
RECURSIVE NextNonSpace(_, _)
NextNonSpace(b, at) ==
  IF at >= Len(b) THEN Len(b)
  ELSE IF isSpace(At(b, at)) THEN NextNonSpace(b, at + 1)
  ELSE at

\* The first index j >= at whose byte is not a digit, or Len(b).
RECURSIVE SkipNums(_, _)
SkipNums(b, at) ==
  IF at < Len(b) /\ isNum(At(b, at)) THEN SkipNums(b, at + 1) ELSE at

---------------------------------------------------------------------------
\* Valid (chkjson.go, the goto-driven state machine).  A validator state is
\* [pc, at, c, stack]: the label about to run, the read cursor p.at, the
\* byte variable c and p.stack.  pc = "true" / "false" is the returned
\* boolean; pc = "panic" is a run-time abort (an index out of range).

VRet(v, ok) == [v EXCEPT !.pc = IF ok THEN "true" ELSE "false"]

VGoto(v, label) == [v EXCEPT !.pc = label]

ValidInit == [pc |-> "entry", at |-> 0, c |-> 0, stack |-> EmptyStack]

\* Lines 543-552: skip the leading spaces without consuming the first
\* non-space byte; an empty or all-space input is invalid.
V_entry(b, v) ==
  LET j == NextNonSpace(b, v.at) IN
  IF j < Len(b)
    THEN [v EXCEPT !.pc = "start", !.at = j, !.c = At(b, j)]
    ELSE [v EXCEPT !.pc = "false", !.at = j,
                   !.c = IF Len(b) > v.at THEN At(b, Len(b) - 1) ELSE v.c]

\* VAfterSpace stepping the cursor once more when no byte is left.
VAfterSpaceOver(b, v) ==
  LET j == NextNonSpace(b, v.at) IN
  [v EXCEPT !.at = j + 1, !.c = IF j < Len(b) THEN At(b, j) ELSE v.c]

\* The inlined afterSpace loop: consume bytes up to and including the
\* first non-space one, which is left in c.  When none is left the cursor
\* ends at len(p.in) and c holds the last byte read, if any.
VAfterSpace(b, v) ==
  LET j == NextNonSpace(b, v.at) IN
  IF j < Len(b)
    THEN [v EXCEPT !.at = j + 1, !.c = At(b, j)]
    ELSE [v EXCEPT !.at = Len(b),
                   !.c = IF Len(b) > v.at THEN At(b, Len(b) - 1) ELSE v.c]

\* Lines 554-562.
V_start(b, v) ==
  LET w == VAfterSpace(b, v) IN
  IF NextNonSpace(b, v.at) < Len(b)
    THEN VGoto(w, "beginVal")
    ELSE VRet(w, empty(w.stack))

\* Lines 564-605.
V_beginVal(b, v) ==
  CASE v.c = Ch.lbrace ->
         [v EXCEPT !.stack = push(v.stack, parseObjKey), !.pc = "beginStrOrEmpty"]
    [] v.c = Ch.lbracket ->
         [v EXCEPT !.stack = push(v.stack, parseArrVal), !.pc = "beginValOrEmpty"]
    [] v.c = Ch.quote -> VGoto(v, "finStr")
    [] v.c = Ch.minus -> VGoto(v, "finNeg")
    [] v.c = Ch.zero -> VGoto(v, "fin0")
    [] v.c = Ch.t -> VGoto(v, "finTrue")
    [] v.c = Ch.f -> VGoto(v, "finFalse")
    [] v.c = Ch.n -> VGoto(v, "finNull")
    [] OTHER -> IF isNat(v.c) THEN VGoto(v, "fin1") ELSE VRet(v, FALSE)

\* Lines 607-627: the loop breaks on the first non-space byte; after it c
\* is tested whether or not a byte was found.
V_beginStrOrEmpty(b, v) ==
  LET w == VAfterSpace(b, v) IN
  IF w.c = Ch.rbrace
    THEN IF popOK(w.stack)
           THEN [w EXCEPT !.stack = pop(w.stack), !.pc = "endVal"]
           ELSE VGoto(w, "panic")
  ELSE IF w.c = Ch.quote THEN VGoto(w, "finStr")
  ELSE VRet(w, FALSE)

\* Lines 629-640: the first non-space byte is looked at, not consumed.
V_beginValOrEmpty(b, v) ==
  LET j == NextNonSpace(b, v.at) IN
  IF j < Len(b)
    THEN [v EXCEPT !.at = j, !.c = At(b, j),
                   !.pc = IF At(b, j) = Ch.rbracket THEN "endVal" ELSE "start"]
    ELSE [v EXCEPT !.at = j, !.pc = "false",
                   !.c = IF Len(b) > v.at THEN At(b, Len(b) - 1) ELSE v.c]

\* V_finStr refusing the bytes from 0x80 on.
V_finStrAscii(b, v) ==
  IF v.at >= Len(b) THEN VRet(v, FALSE)
  ELSE
    LET c == At(b, v.at)
        w == [v EXCEPT !.c = c, !.at = v.at + 1]
    IN
    IF c = Ch.quote THEN VGoto(w, "endVal")
    ELSE IF c = Ch.bslash THEN
      IF w.at >= Len(b) THEN VRet(w, FALSE)
      ELSE
        LET e == At(b, w.at)
            x == [w EXCEPT !.c = e, !.at = w.at + 1]
        IN
        IF isEscChar(e) THEN VGoto(x, "finStr")
        ELSE IF e = Ch.u THEN
          IF x.at + 3 < Len(b)
             /\ isHex(At(b, x.at)) /\ isHex(At(b, x.at + 1))
             /\ isHex(At(b, x.at + 2)) /\ isHex(At(b, x.at + 3))
            THEN [x EXCEPT !.at = x.at + 4, !.pc = "finStr"]
            ELSE VRet(x, FALSE)
        ELSE VRet(x, FALSE)
    ELSE IF c < Ch.sp \/ c >= Ch.x80 THEN VRet(w, FALSE)
    ELSE VGoto(w, "finStr")

\* Lines 642-675: one byte of a string, or one whole escape.
V_finStr(b, v) ==
  IF v.at >= Len(b) THEN VRet(v, FALSE)
  ELSE
    LET c == At(b, v.at)
        w == [v EXCEPT !.c = c, !.at = v.at + 1]
    IN
    IF c = Ch.quote THEN VGoto(w, "endVal")
    ELSE IF c = Ch.bslash THEN
      IF w.at >= Len(b) THEN VRet(w, FALSE)
      ELSE
        LET e == At(b, w.at)
            x == [w EXCEPT !.c = e, !.at = w.at + 1]
        IN
        IF isEscChar(e) THEN VGoto(x, "finStr")
        ELSE IF e = Ch.u THEN
          IF x.at + 3 < Len(b)
             /\ isHex(At(b, x.at)) /\ isHex(At(b, x.at + 1))
             /\ isHex(At(b, x.at + 2)) /\ isHex(At(b, x.at + 3))
            THEN [x EXCEPT !.at = x.at + 4, !.pc = "finStr"]
            ELSE VRet(x, FALSE)
        ELSE VRet(x, FALSE)
    ELSE IF c < Ch.sp THEN VRet(w, FALSE)
    ELSE VGoto(w, "finStr")

\* Lines 677-689.
V_finNeg(b, v) ==
  IF v.at >= Len(b) THEN VRet(v, FALSE)
  ELSE
    LET c == At(b, v.at)
        w == [v EXCEPT !.c = c, !.at = v.at + 1]
    IN
    IF c = Ch.zero THEN VGoto(w, "fin0")
    ELSE IF isNat(c) THEN VGoto(w, "fin1")
    ELSE VRet(w, FALSE)

\* Lines 691-698.
V_fin1(b, v) ==
  LET j == SkipNums(b, v.at) IN
  [v EXCEPT !.at = j, !.pc = IF j < Len(b) THEN "fin0" ELSE "endVal"]

\* V_fin0 reading on through digits that follow the first one.
V_fin0Digits(b, v) ==
  IF v.at >= Len(b) THEN VGoto(v, "endVal")
  ELSE
    LET c == At(b, v.at) IN
    IF isNum(c) THEN [v EXCEPT !.c = c, !.at = v.at + 1, !.pc = "fin1"]
    ELSE IF c = Ch.dot THEN [v EXCEPT !.c = c, !.at = v.at + 1, !.pc = "finDot"]
    ELSE IF isE(c) THEN [v EXCEPT !.c = c, !.at = v.at + 1, !.pc = "finE"]
    ELSE [v EXCEPT !.c = c, !.pc = "endVal"]

\* Lines 700-713.
V_fin0(b, v) ==
  IF v.at >= Len(b) THEN VGoto(v, "endVal")
  ELSE
    LET c == At(b, v.at) IN
    IF c = Ch.dot THEN [v EXCEPT !.c = c, !.at = v.at + 1, !.pc = "finDot"]
    ELSE IF isE(c) THEN [v EXCEPT !.c = c, !.at = v.at + 1, !.pc = "finE"]
    ELSE [v EXCEPT !.c = c, !.pc = "endVal"]

\* Lines 715-733.
V_finDot(b, v) ==
  IF v.at >= Len(b) THEN VRet(v, FALSE)
  ELSE
    LET c == At(b, v.at)
        w == [v EXCEPT !.c = c, !.at = v.at + 1]
    IN
    IF ~isNum(c) THEN VRet(w, FALSE)
    ELSE
      LET j == SkipNums(b, w.at) IN
      IF j < Len(b) /\ isE(At(b, j))
        THEN [w EXCEPT !.at = j + 1, !.pc = "finE"]
        ELSE [w EXCEPT !.at = j, !.pc = "endVal"]

\* Lines 735-754.
V_finE(b, v) ==
  IF v.at >= Len(b) THEN VRet(v, FALSE)
  ELSE
    LET c == At(b, v.at)
        w == [v EXCEPT !.c = c, !.at = v.at + 1]
    IN
    IF c = Ch.plus \/ c = Ch.minus THEN
      IF w.at >= Len(b) THEN VRet(w, FALSE)
      ELSE
        LET d == At(b, w.at)
            x == [w EXCEPT !.c = d, !.at = w.at + 1]
        IN
        IF ~isNum(d) THEN VRet(x, FALSE)
        ELSE [x EXCEPT !.at = SkipNums(b, x.at), !.pc = "endVal"]
    ELSE IF ~isNum(c) THEN VRet(w, FALSE)
    ELSE [w EXCEPT !.at = SkipNums(b, w.at), !.pc = "endVal"]

\* V_finTrue not looking at the last byte.
V_finTrueAnyE(b, v) ==
  IF v.at + 2 < Len(b)
     /\ At(b, v.at) = Ch.r /\ At(b, v.at + 1) = Ch.u
    THEN [v EXCEPT !.at = v.at + 3, !.pc = "endVal"]
    ELSE VRet(v, FALSE)

\* Lines 756-765.
V_finTrue(b, v) ==
  IF v.at + 2 < Len(b)
     /\ At(b, v.at) = Ch.r /\ At(b, v.at + 1) = Ch.u /\ At(b, v.at + 2) = Ch.e
    THEN [v EXCEPT !.at = v.at + 3, !.pc = "endVal"]
    ELSE VRet(v, FALSE)

\* Lines 767-777.
V_finFalse(b, v) ==
  IF v.at + 3 < Len(b)
     /\ At(b, v.at) = Ch.a /\ At(b, v.at + 1) = Ch.l
     /\ At(b, v.at + 2) = Ch.s /\ At(b, v.at + 3) = Ch.e
    THEN [v EXCEPT !.at = v.at + 4, !.pc = "endVal"]
    ELSE VRet(v, FALSE)

\* Lines 779-788.
V_finNull(b, v) ==
  IF v.at + 2 < Len(b)
     /\ At(b, v.at) = Ch.u /\ At(b, v.at + 1) = Ch.l /\ At(b, v.at + 2) = Ch.l
    THEN [v EXCEPT !.at = v.at + 3, !.pc = "endVal"]
    ELSE VRet(v, FALSE)

\* V_endVal answering true at the end of the input whatever the stack
\* holds.
V_endValAnyStack(b, v) ==
  LET j == NextNonSpace(b, v.at)
      w == VAfterSpace(b, v)
  IN
  IF j >= Len(b) THEN VRet(w, TRUE)
  ELSE IF empty(v.stack) THEN VRet(w, FALSE)
  ELSE VGoto(w, "finVal")

\* Lines 790-809: with an empty stack only spaces may remain; otherwise
\* the next non-space byte is consumed and finVal decides.
V_endVal(b, v) ==
  LET j == NextNonSpace(b, v.at)
      w == VAfterSpace(b, v)
  IN
  IF empty(v.stack) THEN VRet(w, j >= Len(b))
  ELSE IF j < Len(b) THEN VGoto(w, "finVal")
  ELSE VRet(w, FALSE)

\* V_finVal letting an array close right after a comma.
V_finValTrailingComma(b, v) ==
  IF ~popOK(v.stack) THEN VGoto(v, "panic")
  ELSE
    LET s == top(v.stack)
        w == [v EXCEPT !.stack = pop(v.stack)]
    IN
    CASE s = parseObjKey ->
           IF w.c = Ch.colon
             THEN [w EXCEPT !.stack = push(w.stack, parseObjVal), !.pc = "start"]
             ELSE VRet(w, FALSE)
      [] s = parseObjVal ->
           IF w.c = Ch.comma THEN
             LET x == [w EXCEPT !.stack = push(w.stack, parseObjKey)]
                 y == VAfterSpace(b, x)
             IN
             IF NextNonSpace(b, x.at) < Len(b) /\ y.c = Ch.quote
               THEN VGoto(y, "finStr")
               ELSE VRet(y, FALSE)
           ELSE IF w.c = Ch.rbrace THEN VGoto(w, "endVal")
           ELSE VRet(w, FALSE)
      [] s = parseArrVal ->
           IF w.c = Ch.comma
             THEN [w EXCEPT !.stack = push(w.stack, parseArrVal),
                            !.pc = "beginValOrEmpty"]
           ELSE IF w.c = Ch.rbracket THEN VGoto(w, "endVal")
           ELSE VRet(w, FALSE)

\* Lines 811-863.
V_finVal(b, v) ==
  IF ~popOK(v.stack) THEN VGoto(v, "panic")
  ELSE
    LET s == top(v.stack)
        w == [v EXCEPT !.stack = pop(v.stack)]
    IN
    CASE s = parseObjKey ->
           IF w.c = Ch.colon
             THEN [w EXCEPT !.stack = push(w.stack, parseObjVal), !.pc = "start"]
             ELSE VRet(w, FALSE)
      [] s = parseObjVal ->
           IF w.c = Ch.comma THEN
             LET x == [w EXCEPT !.stack = push(w.stack, parseObjKey)]
                 y == VAfterSpace(b, x)
             IN
             IF NextNonSpace(b, x.at) < Len(b) /\ y.c = Ch.quote
               THEN VGoto(y, "finStr")
               ELSE VRet(y, FALSE)
           ELSE IF w.c = Ch.rbrace THEN VGoto(w, "endVal")
           ELSE VRet(w, FALSE)
      [] s = parseArrVal ->
           IF w.c = Ch.comma
             THEN [w EXCEPT !.stack = push(w.stack, parseArrVal), !.pc = "start"]
           ELSE IF w.c = Ch.rbracket THEN VGoto(w, "endVal")
           ELSE VRet(w, FALSE)

VDone(v) == v.pc \in {"true", "false", "panic"}

\* One labelled block of Valid.
ValidStep(b, v) ==
  CASE v.pc = "entry" -> V_entry(b, v)
    [] v.pc = "start" -> V_start(b, v)
    [] v.pc = "beginVal" -> V_beginVal(b, v)
    [] v.pc = "beginStrOrEmpty" -> V_beginStrOrEmpty(b, v)
    [] v.pc = "beginValOrEmpty" -> V_beginValOrEmpty(b, v)
    [] v.pc = "finStr" -> V_finStr(b, v)
    [] v.pc = "finNeg" -> V_finNeg(b, v)
    [] v.pc = "fin1" -> V_fin1(b, v)
    [] v.pc = "fin0" -> V_fin0(b, v)
    [] v.pc = "finDot" -> V_finDot(b, v)
    [] v.pc = "finE" -> V_finE(b, v)
    [] v.pc = "finTrue" -> V_finTrue(b, v)
    [] v.pc = "finFalse" -> V_finFalse(b, v)
    [] v.pc = "finNull" -> V_finNull(b, v)
    [] v.pc = "endVal" -> V_endVal(b, v)
    [] v.pc = "finVal" -> V_finVal(b, v)

---------------------------------------------------------------------------
\* Buffers.  A compaction state carries the storage of one call:
\*   mem    the backing array of src (length cap(src)); src is mem[0:n]
\*   n      len(src)
\*   alias  TRUE while dst is a slice of that same array (the caller
\*          passed src[:0]); its length is then w
\*   w      len(dst) while alias holds
\*   out    the contents of dst once it lives in storage of its own
\* append writes in place while the capacity lasts and otherwise moves
\* dst to a fresh array, as Go's append does.

Src(p) == SubSeq(p.mem, 1, p.n)

\* dst[0:len(dst)], wherever it lives.
Dst(p) == IF p.alias THEN SubSeq(p.mem, 1, p.w) ELSE p.out

\* mem with bytes written from index w on.
Overwrite(mem, w, bytes) ==
  [k \in 1..Len(mem) |->
     IF k > w /\ k <= w + Len(bytes) THEN bytes[k - w] ELSE mem[k]]

\* AppendBytes growing dst one byte before its capacity is used up.
AppendBytesEarly(p, bytes) ==
  IF ~p.alias THEN [p EXCEPT !.out = @ \o bytes]
  ELSE IF p.w + Len(bytes) < Len(p.mem)
    THEN [p EXCEPT !.mem = Overwrite(@, p.w, bytes), !.w = @ + Len(bytes)]
    ELSE [p EXCEPT !.alias = FALSE, !.out = SubSeq(p.mem, 1, p.w) \o bytes]

\* AppendBytes storing the bytes in src's array as well when dst has
\* storage of its own.
AppendBytesIntoSrc(p, bytes) ==
  IF ~p.alias
    THEN [p EXCEPT !.out = @ \o bytes, !.mem = Overwrite(@, Len(p.out), bytes)]
  ELSE IF p.w + Len(bytes) <= Len(p.mem)
    THEN [p EXCEPT !.mem = Overwrite(@, p.w, bytes), !.w = @ + Len(bytes)]
    ELSE [p EXCEPT !.alias = FALSE, !.out = SubSeq(p.mem, 1, p.w) \o bytes]

\* dst = append(dst, bytes...)
AppendBytes(p, bytes) ==
  IF ~p.alias THEN [p EXCEPT !.out = @ \o bytes]
  ELSE IF p.w + Len(bytes) <= Len(p.mem)
    THEN [p EXCEPT !.mem = Overwrite(@, p.w, bytes), !.w = @ + Len(bytes)]
    ELSE [p EXCEPT !.alias = FALSE, !.out = SubSeq(p.mem, 1, p.w) \o bytes]

\* The buffers of a call op(dst, src): dst is either src[:0] or a slice
\* with contents prefix in storage of its own.
Buffers(b, spare, alias, prefix) ==
  [mem |-> b \o spare, n |-> Len(b), alias |-> alias, w |-> 0, out |-> prefix]

\* len(dst)
DstLen(p) == IF p.alias THEN p.w ELSE Len(p.out)

---------------------------------------------------------------------------
\* The string scan shared by packAny's and compact's finStr / finObjKey
\* loops: from index at inside a string, the index after its closing
\* quote, or -1 when the string is malformed or unterminated.
RECURSIVE StrEnd(_, _)
StrEnd(b, at) ==
  IF at >= Len(b) THEN -1
  ELSE
    LET c == At(b, at) IN
    IF c < Ch.sp THEN -1
    ELSE IF c = Ch.quote THEN at + 1
    ELSE IF c = Ch.bslash THEN
      IF at + 1 = Len(b) THEN -1
      ELSE IF isEscChar(At(b, at + 1)) THEN StrEnd(b, at + 2)
      ELSE IF At(b, at + 1) = Ch.u THEN
        IF Len(b) - (at + 1) > 5
           /\ isHex(At(b, at + 2)) /\ isHex(At(b, at + 3))
           /\ isHex(At(b, at + 4)) /\ isHex(At(b, at + 5))
          THEN StrEnd(b, at + 6)
          ELSE -1
      ELSE -1
    ELSE StrEnd(b, at + 1)

\* The case ' ', '\r', '\t', '\n' of the compactors' switches.
caseSpace(c) == c \in {Ch.sp, Ch.cr, Ch.tab, Ch.lf}

RECURSIVE NextNonCaseSpace(_, _)
NextNonCaseSpace(b, at) ==
  IF at >= Len(b) THEN Len(b)
  ELSE IF caseSpace(At(b, at)) THEN NextNonCaseSpace(b, at + 1)
  ELSE at

---------------------------------------------------------------------------
\* packAny and AppendCompactString (compact.go:22-337).  A state is the
\* buffers plus [pc, at, start, frames]: the label about to run, the read
\* cursor, the start of the span not yet copied, and the suspended callers
\* of the recursive calls at objAny and arrAny (each with its own start).
\* pc = "ok" / "fail" is the call's result: (dst, true) or (nil, false).

\* PackInit starting from an empty dst.
PackInitEmptyDst(buf) ==
  [mem |-> buf.mem, n |-> buf.n, alias |-> buf.alias, w |-> buf.w,
   out |-> <<>>, pre |-> buf.out, pc |-> "whitespace", at |-> 0,
   start |-> 0, frames |-> <<>>]

\* pre is dst as the caller passed it.
PackInit(buf) ==
  [mem |-> buf.mem, n |-> buf.n, alias |-> buf.alias, w |-> buf.w,
   out |-> buf.out, pre |-> buf.out, pc |-> "whitespace", at |-> 0,
   start |-> 0, frames |-> <<>>]

PFail(p) == [p EXCEPT !.pc = "fail"]

\* return dst, at, true: back to the caller's objAny / arrAny, or to
\* AppendCompactString's trailing-space loop.
PReturn(p, at) ==
  IF Len(p.frames) = 0 THEN [p EXCEPT !.pc = "trailing", !.at = at]
  ELSE
    LET f == p.frames[Len(p.frames)] IN
    [p EXCEPT !.pc = f.ret, !.at = at, !.start = f.start,
              !.frames = SubSeq(@, 1, Len(@) - 1)]

\* packAny(dst, src, at) called from label ret.
PCall(p, ret) ==
  [p EXCEPT !.frames = Append(@, [ret |-> ret, start |-> p.start]),
            !.pc = "whitespace", !.start = p.at]

\* PKeepSpan leaving out the last byte of the span.
PKeepSpanShort(p, at) ==
  PReturn(AppendBytes(p, Slice(p.mem, p.start, at - 1)), at)

\* dst = append(dst, src[start:at]...); return dst, at, true
PKeepSpan(p, at) == PReturn(AppendBytes(p, Slice(p.mem, p.start, at)), at)

\* P_whitespace stepping start over one space of a run only.
P_whitespaceOnce(p) ==
  LET b == Src(p)
      j == NextNonCaseSpace(b, p.at)
  IN
  IF j = Len(b) THEN PFail(p)
  ELSE
    LET c == At(b, j)
        q == [p EXCEPT !.at = j + 1, !.start = p.start + (IF j > p.at THEN 1 ELSE 0)]
    IN
    CASE c = Ch.lbrace ->
           [AppendBytes(q, <<Ch.lbrace>>) EXCEPT !.start = q.start + 1, !.pc = "finObj"]
      [] c = Ch.lbracket ->
           [AppendBytes(q, <<Ch.lbracket>>) EXCEPT !.start = q.start + 1, !.pc = "finArr"]
      [] c = Ch.quote -> [q EXCEPT !.pc = "finStr"]
      [] c = Ch.t ->
           IF q.at + 3 <= Len(b) /\ At(b, q.at + 2) = Ch.e
              /\ At(b, q.at) = Ch.r /\ At(b, q.at + 1) = Ch.u
             THEN PReturn(AppendBytes(q, <<Ch.t, Ch.r, Ch.u, Ch.e>>), q.at + 3)
             ELSE PFail(q)
      [] c = Ch.f ->
           IF q.at + 4 <= Len(b)
              /\ Slice(b, q.at, q.at + 4) = <<Ch.a, Ch.l, Ch.s, Ch.e>>
             THEN PReturn(AppendBytes(q, <<Ch.f, Ch.a, Ch.l, Ch.s, Ch.e>>), q.at + 4)
             ELSE PFail(q)
      [] c = Ch.n ->
           IF q.at + 3 <= Len(b) /\ At(b, q.at) = Ch.u
              /\ At(b, q.at + 1) = Ch.l /\ At(b, q.at + 2) = Ch.l
             THEN PReturn(AppendBytes(q, <<Ch.n, Ch.u, Ch.l, Ch.l>>), q.at + 3)
             ELSE PFail(q)
      [] c = Ch.minus -> [q EXCEPT !.pc = "finNeg"]
      [] c = Ch.zero -> [q EXCEPT !.pc = "fin0"]
      [] OTHER -> IF isNat(c) THEN [q EXCEPT !.pc = "fin1"] ELSE PFail(q)

\* Lines 51-105.
P_whitespace(p) ==
  LET b == Src(p)
      j == NextNonCaseSpace(b, p.at)
  IN
  IF j = Len(b) THEN PFail(p)
  ELSE
    LET c == At(b, j)
        q == [p EXCEPT !.at = j + 1, !.start = p.start + (j - p.at)]
    IN
    CASE c = Ch.lbrace ->
           [AppendBytes(q, <<Ch.lbrace>>) EXCEPT !.start = q.start + 1, !.pc = "finObj"]
      [] c = Ch.lbracket ->
           [AppendBytes(q, <<Ch.lbracket>>) EXCEPT !.start = q.start + 1, !.pc = "finArr"]
      [] c = Ch.quote -> [q EXCEPT !.pc = "finStr"]
      [] c = Ch.t ->
           IF q.at + 3 <= Len(b) /\ At(b, q.at + 2) = Ch.e
              /\ At(b, q.at) = Ch.r /\ At(b, q.at + 1) = Ch.u
             THEN PReturn(AppendBytes(q, <<Ch.t, Ch.r, Ch.u, Ch.e>>), q.at + 3)
             ELSE PFail(q)
      [] c = Ch.f ->
           IF q.at + 4 <= Len(b)
              /\ Slice(b, q.at, q.at + 4) = <<Ch.a, Ch.l, Ch.s, Ch.e>>
             THEN PReturn(AppendBytes(q, <<Ch.f, Ch.a, Ch.l, Ch.s, Ch.e>>), q.at + 4)
             ELSE PFail(q)
      [] c = Ch.n ->
           IF q.at + 3 <= Len(b) /\ At(b, q.at) = Ch.u
              /\ At(b, q.at + 1) = Ch.l /\ At(b, q.at + 2) = Ch.l
             THEN PReturn(AppendBytes(q, <<Ch.n, Ch.u, Ch.l, Ch.l>>), q.at + 3)
             ELSE PFail(q)
      [] c = Ch.minus -> [q EXCEPT !.pc = "finNeg"]
      [] c = Ch.zero -> [q EXCEPT !.pc = "fin0"]
      [] OTHER -> IF isNat(c) THEN [q EXCEPT !.pc = "fin1"] ELSE PFail(q)

\* Lines 107-141.
P_finStr(p) ==
  LET e == StrEnd(Src(p), p.at) IN
  IF e < 0 THEN PFail(p) ELSE PKeepSpan(p, e)

\* P_finObj leaving start behind on the spaces before a key.
P_finObjKeepsSpace(p) ==
  LET b == Src(p)
      j == NextNonCaseSpace(b, p.at)
  IN
  IF j = Len(b) THEN PFail(p)
  ELSE
    LET c == At(b, j)
        q == [p EXCEPT !.at = j + 1]
    IN
    IF c = Ch.quote THEN [q EXCEPT !.pc = "finObjKey"]
    ELSE IF c = Ch.rbrace THEN PReturn(AppendBytes(q, <<Ch.rbrace>>), q.at)
    ELSE PFail(q)

\* Lines 143-156; an exhausted loop falls into finObjKey, which fails.
P_finObj(p) ==
  LET b == Src(p)
      j == NextNonCaseSpace(b, p.at)
  IN
  IF j = Len(b) THEN PFail(p)
  ELSE
    LET c == At(b, j)
        q == [p EXCEPT !.at = j + 1, !.start = p.start + (j - p.at)]
    IN
    IF c = Ch.quote THEN [q EXCEPT !.pc = "finObjKey"]
    ELSE IF c = Ch.rbrace THEN PReturn(AppendBytes(q, <<Ch.rbrace>>), q.at)
    ELSE PFail(q)

\* Lines 158-192.
P_finObjKey(p) ==
  LET e == StrEnd(Src(p), p.at) IN
  IF e < 0 THEN PFail(p)
  ELSE [AppendBytes(p, Slice(p.mem, p.start, e)) EXCEPT
          !.start = e, !.at = e, !.pc = "finObjSep"]

\* Lines 194-204; an exhausted loop falls into objAny, whose call fails
\* at end of input.
P_finObjSep(p) ==
  LET b == Src(p)
      j == NextNonCaseSpace(b, p.at)
  IN
  IF j = Len(b) THEN PFail(p)
  ELSE IF At(b, j) = Ch.colon
    THEN [AppendBytes(p, <<Ch.colon>>) EXCEPT !.at = j + 1, !.pc = "objAny"]
  ELSE PFail(p)

\* Line 207: the recursive call for a member's value.
P_objAny(p) == PCall(p, "objAnyRet")

\* Lines 211-223, after the call returned; an exhausted loop falls into
\* beginStr, which fails.
P_objAnyRet(p) ==
  LET b == Src(p)
      j == NextNonCaseSpace(b, p.at)
  IN
  IF j = Len(b) THEN PFail(p)
  ELSE
    LET c == At(b, j) IN
    IF c = Ch.comma
      THEN [AppendBytes(p, <<Ch.comma>>) EXCEPT
              !.at = j + 1, !.start = j, !.pc = "beginStr"]
    ELSE IF c = Ch.rbrace THEN PReturn(AppendBytes(p, <<Ch.rbrace>>), j + 1)
    ELSE PFail(p)

\* Lines 225-236.
P_beginStr(p) ==
  LET b == Src(p)
      j == NextNonCaseSpace(b, p.at)
  IN
  IF j = Len(b) THEN PFail(p)
  ELSE IF At(b, j) = Ch.quote
    THEN [p EXCEPT !.at = j + 1, !.start = j, !.pc = "finObjKey"]
  ELSE PFail(p)

\* Lines 238-249; the first element's first byte is not consumed.
P_finArr(p) ==
  LET b == Src(p)
      j == NextNonCaseSpace(b, p.at)
  IN
  IF j < Len(b) /\ At(b, j) = Ch.rbracket
    THEN PReturn(AppendBytes(p, <<Ch.rbracket>>), j + 1)
    ELSE [p EXCEPT !.at = j, !.pc = "arrAny"]

\* Line 252: the recursive call for an element.
P_arrAny(p) == PCall(p, "arrAnyRet")

\* Lines 256-270, after the call returned.
P_arrAnyRet(p) ==
  LET b == Src(p)
      j == NextNonCaseSpace(b, p.at)
  IN
  IF j = Len(b) THEN PFail(p)
  ELSE
    LET c == At(b, j) IN
    IF c = Ch.comma
      THEN [AppendBytes(p, <<Ch.comma>>) EXCEPT !.at = j + 1, !.pc = "arrAny"]
    ELSE IF c = Ch.rbracket THEN PReturn(AppendBytes(p, <<Ch.rbracket>>), j + 1)
    ELSE PFail(p)

\* Lines 272-281.
P_finNeg(p) ==
  LET b == Src(p) IN
  IF p.at = Len(b) THEN PFail(p)
  ELSE
    LET c == At(b, p.at) IN
    IF c = Ch.zero THEN [p EXCEPT !.at = p.at + 1, !.pc = "fin0"]
    ELSE IF ~isNat(c) THEN PFail(p)
    ELSE [p EXCEPT !.at = p.at + 1, !.pc = "fin1"]

\* Lines 283-285.
P_fin1(p) == [p EXCEPT !.at = SkipNums(Src(p), p.at), !.pc = "fin0"]

\* Lines 287-318: the integer part is over; a fraction is scanned here.
P_fin0(p) ==
  LET b == Src(p) IN
  IF p.at = Len(b) THEN PKeepSpan(p, p.at)
  ELSE
    LET c == At(b, p.at) IN
    IF isE(c) THEN [p EXCEPT !.at = p.at + 1, !.pc = "finE"]
    ELSE IF c # Ch.dot THEN PKeepSpan(p, p.at)
    ELSE IF p.at + 1 = Len(b) THEN PFail(p)
    ELSE IF ~isNum(At(b, p.at + 1)) THEN PFail(p)
    ELSE
      LET j == SkipNums(b, p.at + 2) IN
      IF j = Len(b) \/ ~isE(At(b, j)) THEN PKeepSpan(p, j)
      ELSE [p EXCEPT !.at = j + 1, !.pc = "finE"]

\* Lines 320-336.
P_finE(p) ==
  LET b == Src(p) IN
  IF p.at = Len(b) THEN PFail(p)
  ELSE
    LET c == At(b, p.at) IN
    IF c = Ch.plus \/ c = Ch.minus THEN
      IF p.at + 1 = Len(b) THEN PFail(p)
      ELSE IF ~isNum(At(b, p.at + 1)) THEN PFail(p)
      ELSE PKeepSpan(p, SkipNums(b, p.at + 2))
    ELSE IF ~isNum(c) THEN PFail(p)
    ELSE PKeepSpan(p, SkipNums(b, p.at + 1))

\* P_trailing letting anything follow the value.
P_trailingAny(p) == [p EXCEPT !.pc = "ok", !.at = p.n]

\* AppendCompactString, lines 34-41: only spaces may follow the value.
P_trailing(p) ==
  IF NextNonCaseSpace(Src(p), p.at) = p.n
    THEN [p EXCEPT !.pc = "ok", !.at = p.n]
    ELSE PFail(p)

PDone(p) == p.pc \in {"ok", "fail", "panic"}

\* One labelled block of packAny / AppendCompactString.
PackStep(p) ==
  CASE p.pc = "whitespace" -> P_whitespace(p)
    [] p.pc = "finStr" -> P_finStr(p)
    [] p.pc = "finObj" -> P_finObj(p)
    [] p.pc = "finObjKey" -> P_finObjKey(p)
    [] p.pc = "finObjSep" -> P_finObjSep(p)
    [] p.pc = "objAny" -> P_objAny(p)
    [] p.pc = "objAnyRet" -> P_objAnyRet(p)
    [] p.pc = "beginStr" -> P_beginStr(p)
    [] p.pc = "finArr" -> P_finArr(p)
    [] p.pc = "arrAny" -> P_arrAny(p)
    [] p.pc = "arrAnyRet" -> P_arrAnyRet(p)
    [] p.pc = "finNeg" -> P_finNeg(p)
    [] p.pc = "fin1" -> P_fin1(p)
    [] p.pc = "fin0" -> P_fin0(p)
    [] p.pc = "finE" -> P_finE(p)
    [] p.pc = "trailing" -> P_trailing(p)

---------------------------------------------------------------------------
\* compact and Compact (fuzz.go:279-592): compaction of b in place.  A
\* state is [mem, n, pc, w, at, start, frames]: b itself, len(b), the
\* label, the write cursor w, the read cursor r (at), rstart (start) and
\* the suspended callers.  An indexed store b[w] = c beyond len(b) is a
\* run-time abort, pc = "panic".  pc = "ok" returns (b[:w], true) and
\* pc = "fail" returns (nil, false).

CompactInit(b) ==
  [mem |-> b, n |-> Len(b), alias |-> TRUE, out |-> <<>>, pc |-> "whitespace",
   w |-> 0, at |-> 0, start |-> 0, frames |-> <<>>]

CFail(p) == [p EXCEPT !.pc = "fail"]

\* return w, r, true
CReturn(p, at) ==
  IF Len(p.frames) = 0 THEN [p EXCEPT !.pc = "trailing", !.at = at]
  ELSE
    LET f == p.frames[Len(p.frames)] IN
    [p EXCEPT !.pc = f.ret, !.at = at, !.start = f.start,
              !.frames = SubSeq(@, 1, Len(@) - 1)]

\* compact(b, w, r) called from label ret.
CCall(p, ret) ==
  [p EXCEPT !.frames = Append(@, [ret |-> ret, start |-> p.start]),
            !.pc = "whitespace", !.start = p.at]

\* CStore putting the bytes one index further on than w.
CStoreAhead(p, bytes) ==
  IF p.w + Len(bytes) > p.n THEN [p EXCEPT !.pc = "panic"]
  ELSE [p EXCEPT !.mem = Overwrite(@, p.w + 1, bytes), !.w = @ + Len(bytes)]

\* b[w], ..., b[w+k-1] = bytes; w += k.  An index out of range aborts.
CStore(p, bytes) ==
  IF p.w + Len(bytes) > p.n THEN [p EXCEPT !.pc = "panic"]
  ELSE [p EXCEPT !.mem = Overwrite(@, p.w, bytes), !.w = @ + Len(bytes)]

\* CCopy moving the span without its first byte.
CCopyShort(p, at) ==
  IF p.w > p.n THEN [p EXCEPT !.pc = "panic"]
  ELSE
    [p EXCEPT !.mem = Overwrite(@, p.w, Slice(p.mem, p.start + 1, at)),
              !.w = @ + (at - p.start - 1)]

\* w += copy(b[w:], b[rstart:r]); copy moves min(len(dst), len(src)) bytes.
CCopy(p, at) ==
  IF p.w > p.n THEN [p EXCEPT !.pc = "panic"]
  ELSE
    LET k == IF at - p.start <= p.n - p.w THEN at - p.start ELSE p.n - p.w IN
    [p EXCEPT !.mem = Overwrite(@, p.w, Slice(p.mem, p.start, p.start + k)),
              !.w = @ + k]

\* A store or copy followed by return w, r, true.
CThenReturn(q, at) == IF q.pc = "panic" THEN q ELSE CReturn(q, at)

CThenGoto(q, at, label) ==
  IF q.pc = "panic" THEN q ELSE [q EXCEPT !.at = at, !.pc = label]

\* Lines 300-358.
C_whitespace(p) ==
  LET b == p.mem
      j == NextNonCaseSpace(b, p.at)
  IN
  IF j = Len(b) THEN CFail(p)
  ELSE
    LET c == At(b, j)
        q == [p EXCEPT !.at = j + 1, !.start = p.start + (j - p.at)]
    IN
    CASE c = Ch.lbrace ->
           CThenGoto([CStore(q, <<Ch.lbrace>>) EXCEPT !.start = q.start + 1],
                     q.at, "finObj")
      [] c = Ch.lbracket ->
           CThenGoto([CStore(q, <<Ch.lbracket>>) EXCEPT !.start = q.start + 1],
                     q.at, "finArr")
      [] c = Ch.quote -> [q EXCEPT !.pc = "finStr"]
      [] c = Ch.t ->
           IF q.at + 3 <= Len(b) /\ At(b, q.at + 2) = Ch.e
              /\ At(b, q.at + 1) = Ch.u /\ At(b, q.at) = Ch.r
             THEN CThenReturn(CStore(q, <<Ch.t, Ch.r, Ch.u, Ch.e>>), q.at + 3)
             ELSE CFail(q)
      [] c = Ch.f ->
           IF q.at + 4 <= Len(b) /\ At(b, q.at + 3) = Ch.e
              /\ At(b, q.at + 2) = Ch.s /\ At(b, q.at + 1) = Ch.l
              /\ At(b, q.at) = Ch.a
             THEN CThenReturn(CStore(q, <<Ch.f, Ch.a, Ch.l, Ch.s, Ch.e>>), q.at + 4)
             ELSE CFail(q)
      [] c = Ch.n ->
           IF q.at + 3 <= Len(b) /\ At(b, q.at + 2) = Ch.l
              /\ At(b, q.at + 1) = Ch.l /\ At(b, q.at) = Ch.u
             THEN CThenReturn(CStore(q, <<Ch.n, Ch.u, Ch.l, Ch.l>>), q.at + 3)
             ELSE CFail(q)
      [] c = Ch.minus -> [q EXCEPT !.pc = "finNeg"]
      [] c = Ch.zero -> [q EXCEPT !.pc = "fin0"]
      [] OTHER -> IF isNat(c) THEN [q EXCEPT !.pc = "fin1"] ELSE CFail(q)

\* Lines 360-395.
C_finStr(p) ==
  LET e == StrEnd(p.mem, p.at) IN
  IF e < 0 THEN CFail(p) ELSE CThenReturn(CCopy(p, e), e)

\* Lines 397-410.
C_finObj(p) ==
  LET b == p.mem
      j == NextNonCaseSpace(b, p.at)
  IN
  IF j = Len(b) THEN CFail(p)
  ELSE
    LET c == At(b, j)
        q == [p EXCEPT !.at = j + 1, !.start = p.start + (j - p.at)]
    IN
    IF c = Ch.quote THEN [q EXCEPT !.pc = "finObjKey"]
    ELSE IF c = Ch.rbrace THEN CThenReturn(CStore(q, <<Ch.rbrace>>), q.at)
    ELSE CFail(q)

\* Lines 412-447.
C_finObjKey(p) ==
  LET e == StrEnd(p.mem, p.at) IN
  IF e < 0 THEN CFail(p) ELSE CThenGoto(CCopy(p, e), e, "finObjSep")

\* Lines 449-459.
C_finObjSep(p) ==
  LET b == p.mem
      j == NextNonCaseSpace(b, p.at)
  IN
  IF j = Len(b) THEN CFail(p)
  ELSE IF At(b, j) = Ch.colon THEN CThenGoto(CStore(p, <<Ch.colon>>), j + 1, "objAny")
  ELSE CFail(p)

\* Line 462: the recursive call for a member's value.
C_objAny(p) == CCall(p, "objAnyRet")

\* Lines 466-478, after the call returned.
C_objAnyRet(p) ==
  LET b == p.mem
      j == NextNonCaseSpace(b, p.at)
  IN
  IF j = Len(b) THEN CFail(p)
  ELSE
    LET c == At(b, j) IN
    IF c = Ch.comma
      THEN CThenGoto([CStore(p, <<Ch.comma>>) EXCEPT !.start = j], j + 1, "beginStr")
    ELSE IF c = Ch.rbrace THEN CThenReturn(CStore(p, <<Ch.rbrace>>), j + 1)
    ELSE CFail(p)

\* Lines 480-491.
C_beginStr(p) ==
  LET b == p.mem
      j == NextNonCaseSpace(b, p.at)
  IN
  IF j = Len(b) THEN CFail(p)
  ELSE IF At(b, j) = Ch.quote
    THEN [p EXCEPT !.at = j + 1, !.start = j, !.pc = "finObjKey"]
  ELSE CFail(p)

\* Lines 493-504.
C_finArr(p) ==
  LET b == p.mem
      j == NextNonCaseSpace(b, p.at)
  IN
  IF j < Len(b) /\ At(b, j) = Ch.rbracket
    THEN CThenReturn(CStore(p, <<Ch.rbracket>>), j + 1)
    ELSE [p EXCEPT !.at = j, !.pc = "arrAny"]

\* Line 507: the recursive call for an element.
C_arrAny(p) == CCall(p, "arrAnyRet")

\* Lines 511-525, after the call returned.
C_arrAnyRet(p) ==
  LET b == p.mem
      j == NextNonCaseSpace(b, p.at)
  IN
  IF j = Len(b) THEN CFail(p)
  ELSE
    LET c == At(b, j) IN
    IF c = Ch.comma THEN CThenGoto(CStore(p, <<Ch.comma>>), j + 1, "arrAny")
    ELSE IF c = Ch.rbracket THEN CThenReturn(CStore(p, <<Ch.rbracket>>), j + 1)
    ELSE CFail(p)

\* Lines 527-536.
C_finNeg(p) ==
  LET b == p.mem IN
  IF p.at = Len(b) THEN CFail(p)
  ELSE
    LET c == At(b, p.at) IN
    IF c = Ch.zero THEN [p EXCEPT !.at = p.at + 1, !.pc = "fin0"]
    ELSE IF ~isNat(c) THEN CFail(p)
    ELSE [p EXCEPT !.at = p.at + 1, !.pc = "fin1"]

\* Lines 538-540.
C_fin1(p) == [p EXCEPT !.at = SkipNums(p.mem, p.at), !.pc = "fin0"]

\* Lines 542-573.
C_fin0(p) ==
  LET b == p.mem IN
  IF p.at = Len(b) THEN CThenReturn(CCopy(p, p.at), p.at)
  ELSE
    LET c == At(b, p.at) IN
    IF isE(c) THEN [p EXCEPT !.at = p.at + 1, !.pc = "finE"]
    ELSE IF c # Ch.dot THEN CThenReturn(CCopy(p, p.at), p.at)
    ELSE IF p.at + 1 = Len(b) THEN CFail(p)
    ELSE IF ~isNum(At(b, p.at + 1)) THEN CFail(p)
    ELSE
      LET j == SkipNums(b, p.at + 2) IN
      IF j = Len(b) \/ ~isE(At(b, j)) THEN CThenReturn(CCopy(p, j), j)
      ELSE [p EXCEPT !.at = j + 1, !.pc = "finE"]

\* Lines 575-591.
C_finE(p) ==
  LET b == p.mem IN
  IF p.at = Len(b) THEN CFail(p)
  ELSE
    LET c == At(b, p.at) IN
    IF c = Ch.plus \/ c = Ch.minus THEN
      IF p.at + 1 = Len(b) THEN CFail(p)
      ELSE IF ~isNum(At(b, p.at + 1)) THEN CFail(p)
      ELSE LET j == SkipNums(b, p.at + 2) IN CThenReturn(CCopy(p, j), j)
    ELSE IF ~isNum(c) THEN CFail(p)
    ELSE LET j == SkipNums(b, p.at + 1) IN CThenReturn(CCopy(p, j), j)

\* Compact, lines 285-292: only spaces may follow the value.
C_trailing(p) ==
  IF NextNonCaseSpace(p.mem, p.at) = p.n
    THEN [p EXCEPT !.pc = "ok", !.at = p.n]
    ELSE CFail(p)

\* One labelled block of compact / Compact.
CompactStep(p) ==
  CASE p.pc = "whitespace" -> C_whitespace(p)
    [] p.pc = "finStr" -> C_finStr(p)
    [] p.pc = "finObj" -> C_finObj(p)
    [] p.pc = "finObjKey" -> C_finObjKey(p)
    [] p.pc = "finObjSep" -> C_finObjSep(p)
    [] p.pc = "objAny" -> C_objAny(p)
    [] p.pc = "objAnyRet" -> C_objAnyRet(p)
    [] p.pc = "beginStr" -> C_beginStr(p)
    [] p.pc = "finArr" -> C_finArr(p)
    [] p.pc = "arrAny" -> C_arrAny(p)
    [] p.pc = "arrAnyRet" -> C_arrAnyRet(p)
    [] p.pc = "finNeg" -> C_finNeg(p)
    [] p.pc = "fin1" -> C_fin1(p)
    [] p.pc = "fin0" -> C_fin0(p)
    [] p.pc = "finE" -> C_finE(p)
    [] p.pc = "trailing" -> C_trailing(p)

---------------------------------------------------------------------------
\* The stack-based compactor (compact.go:360-733) behind AppendCompactJSONP
\* and the stack-based AppendCompact.  A state is the buffers plus
\* [pc, at, c, stack, jsonp, dist, fresh]: the method about to run, the
\* parser's cursor p.at, the byte handed from run to beginVal,
\* p.parseState, the jsonp flag, dist = &src[0] - &dst[0], the distance in
\* bytes between the two slices' storage (0 while dst aliases src), and
\* fresh, the capacity of the buffer finStr made for dst (0 while it has
\* made none).  pc = "true" / "false" is the boolean run returns beside
\* p.dst.

\* dist for a dst whose storage is nowhere near src's.
Far == 4096

CompactorInit(buf, jsonp, dist) ==
  [mem |-> buf.mem, n |-> buf.n, alias |-> buf.alias, w |-> buf.w,
   out |-> buf.out, pc |-> "entry", at |-> 0, c |-> 0,
   stack |-> EmptyStack, jsonp |-> jsonp, dist |-> dist, fresh |-> 0]

KRet(p, ok) == [p EXCEPT !.pc = IF ok THEN "true" ELSE "false"]

\* keep storing the bytes in src's array as well once dst has been moved.
keepIntoSrc(p, bytes) ==
  LET q == AppendBytes(p, bytes) IN
  IF p.alias /\ ~q.alias THEN [q EXCEPT !.dist = Far]
  ELSE IF p.fresh > 0
    THEN [q EXCEPT !.mem = Overwrite(p.mem, Len(p.out) % (Len(p.mem) + 1), bytes)]
  ELSE q

\* keep: p.dst = append(p.dst, c).  An append that outgrows src's array
\* moves dst to storage of its own.
keep(p, bytes) ==
  LET q == AppendBytes(p, bytes) IN
  IF p.alias /\ ~q.alias THEN [q EXCEPT !.dist = Far] ELSE q

\* AppendCompact / AppendCompactJSONP, lines 360-387: peekAfterSpace.
K_entry(p) ==
  LET j == NextNonSpace(Src(p), p.at) IN
  IF j = p.n THEN [p EXCEPT !.at = j, !.pc = "false"]
  ELSE [p EXCEPT !.at = j, !.pc = "run"]

\* K_run handing the end of the input to endVal instead of returning.
K_runAgain(p) ==
  LET b == Src(p)
      j == NextNonSpace(b, p.at)
  IN
  IF j = Len(b) THEN [p EXCEPT !.at = j, !.pc = "endVal"]
  ELSE [p EXCEPT !.at = j + 1, !.c = At(b, j), !.pc = "beginVal"]

\* run, lines 431-441: one turn of the loop up to the call of beginVal.
K_run(p) ==
  LET b == Src(p)
      j == NextNonSpace(b, p.at)
  IN
  IF j = Len(b) THEN KRet([p EXCEPT !.at = j], empty(p.stack))
  ELSE [p EXCEPT !.at = j + 1, !.c = At(b, j), !.pc = "beginVal"]

\* beginVal, lines 443-477.
K_beginVal(p) ==
  LET q == keep(p, <<p.c>>) IN
  CASE p.c = Ch.lbrace ->
         [q EXCEPT !.stack = push(p.stack, parseObjKey), !.pc = "beginStrOrEmpty"]
    [] p.c = Ch.lbracket ->
         [q EXCEPT !.stack = push(p.stack, parseArrVal), !.pc = "beginValOrEmpty"]
    [] p.c = Ch.quote -> [q EXCEPT !.pc = "finStr"]
    [] p.c = Ch.minus -> [q EXCEPT !.pc = "finNeg"]
    [] p.c = Ch.zero -> [q EXCEPT !.pc = "fin0"]
    [] p.c = Ch.t -> [q EXCEPT !.pc = "finTrue"]
    [] p.c = Ch.f -> [q EXCEPT !.pc = "finFalse"]
    [] p.c = Ch.n -> [q EXCEPT !.pc = "finNull"]
    [] OTHER -> IF isNat(p.c) THEN [q EXCEPT !.pc = "fin1"] ELSE KRet(q, FALSE)

\* beginValOrEmpty, lines 479-488.
K_beginValOrEmpty(p) ==
  LET b == Src(p)
      j == NextNonSpace(b, p.at)
  IN
  IF j = Len(b) THEN KRet([p EXCEPT !.at = j], FALSE)
  ELSE IF At(b, j) = Ch.rbracket THEN [p EXCEPT !.at = j, !.pc = "endVal"]
  ELSE [p EXCEPT !.at = j, !.pc = "run"]

\* beginStrOrEmpty, lines 490-501.
K_beginStrOrEmpty(p) ==
  LET b == Src(p)
      j == NextNonSpace(b, p.at)
  IN
  IF j = Len(b) THEN KRet([p EXCEPT !.at = j], FALSE)
  ELSE IF At(b, j) = Ch.rbrace THEN
    IF popOK(p.stack)
      THEN [p EXCEPT !.at = j, !.stack = replace(p.stack, parseObjVal), !.pc = "endVal"]
      ELSE [p EXCEPT !.at = j, !.pc = "panic"]
  ELSE
    LET q == [keep(p, <<At(b, j)>>) EXCEPT !.at = j + 1] IN
    IF At(b, j) = Ch.quote THEN [q EXCEPT !.pc = "finStr"] ELSE KRet(q, FALSE)

\* One turn of the loop of lines 580-585, with k hex digits still to come
\* after \u.
KHex(p, k) ==
  IF p.at >= p.n THEN KRet(p, FALSE)
  ELSE
    LET c == At(Src(p), p.at)
        q == [p EXCEPT !.at = p.at + 1]
    IN
    IF ~isHex(c) THEN KRet(q, FALSE)
    ELSE [keep(q, <<c>>) EXCEPT
            !.pc = CASE k = 4 -> "hex3" [] k = 3 -> "hex2" [] k = 2 -> "hex1"
                     [] OTHER -> "finStr"]

\* finStrEsc, lines 570-589, up to its loop over the hex digits.
K_finStrEsc(p) ==
  IF p.at >= p.n THEN KRet(p, FALSE)
  ELSE
    LET c == At(Src(p), p.at)
        q == [keep(p, <<c>>) EXCEPT !.at = p.at + 1]
    IN
    IF isEscChar(c) THEN [q EXCEPT !.pc = "finStr"]
    ELSE IF c = Ch.u THEN [q EXCEPT !.pc = "hex4"]
    ELSE KRet(q, FALSE)

\* NeedsRealloc asking for four spare bytes instead of three.
NeedsReallocEarly(p) ==
  LET dstPtr == DstLen(p) - 1
      srcPtr == p.dist + p.at - 1
  IN dstPtr < srcPtr /\ dstPtr + 4 >= srcPtr

\* NeedsRealloc with room for two more bytes taken to be enough.
NeedsReallocLate(p) ==
  LET dstPtr == DstLen(p) - 1
      srcPtr == p.dist + p.at - 1
  IN dstPtr < srcPtr /\ dstPtr + 2 >= srcPtr

\* The address test of lines 549-557, with srcPtr = &p.in[p.at-1] and
\* dstPtr = &p.dst[len(p.dst)-1] measured from &dst[0].
NeedsRealloc(p) ==
  LET dstPtr == DstLen(p) - 1
      srcPtr == p.dist + p.at - 1
  IN dstPtr < srcPtr /\ dstPtr + 3 >= srcPtr

\* Lines 558-560: make([]byte, len(p.dst), cap(p.in)) and copy.  make
\* aborts when the length exceeds the capacity.
Realloc(p) ==
  IF DstLen(p) > Len(p.mem) THEN [p EXCEPT !.pc = "panic"]
  ELSE [p EXCEPT !.alias = FALSE, !.out = Dst(p), !.dist = Far,
                 !.fresh = Len(p.mem)]

\* K_separator leaving the cursor on the separator's last two bytes.
K_separatorNoSkip(p, c) ==
  LET b == Src(p)
      has2 == p.at + 2 <= Len(b)
      n1 == IF has2 THEN At(b, p.at) ELSE 0
      n2 == IF has2 THEN At(b, p.at + 1) ELSE 0
  IN
  IF n1 # Ch.x80 \/ (n2 # Ch.xa8 /\ n2 # Ch.xa9) THEN keep(p, <<c>>)
  ELSE
    keep(p, <<Ch.bslash, Ch.u, Ch.two, Ch.zero, Ch.two,
              IF n2 = Ch.xa8 THEN Ch.eight ELSE Ch.nine>>)

\* K_separator taking 0xE2 0x80 and any third byte for a separator.
K_separatorAnyThird(p, c) ==
  LET b == Src(p)
      has2 == p.at + 2 <= Len(b)
      n1 == IF has2 THEN At(b, p.at) ELSE 0
      n2 == IF has2 THEN At(b, p.at + 1) ELSE 0
  IN
  IF n1 # Ch.x80 THEN keep(p, <<c>>)
  ELSE
    LET q == IF NeedsRealloc(p) THEN Realloc(p) ELSE p IN
    [keep(q, <<Ch.bslash, Ch.u, Ch.two, Ch.zero, Ch.two,
               IF n2 % 2 = 0 THEN Ch.eight ELSE Ch.nine>>)
       EXCEPT !.at = p.at + 2]

\* Lines 543-567: c = 0xe2 was read in jsonp mode.
K_separator(p, c) ==
  LET b == Src(p)
      has2 == p.at + 2 <= Len(b)
      n1 == IF has2 THEN At(b, p.at) ELSE 0
      n2 == IF has2 THEN At(b, p.at + 1) ELSE 0
  IN
  IF n1 # Ch.x80 \/ (n2 # Ch.xa8 /\ n2 # Ch.xa9) THEN keep(p, <<c>>)
  ELSE IF DstLen(p) = 0 THEN [p EXCEPT !.pc = "panic"]
  ELSE
    LET q == IF NeedsRealloc(p) THEN Realloc(p) ELSE p IN
    IF q.pc = "panic" THEN q
    ELSE
      [keep(q, <<Ch.bslash, Ch.u, Ch.two, Ch.zero, Ch.two,
                 IF n2 = Ch.xa8 THEN Ch.eight ELSE Ch.nine>>)
         EXCEPT !.at = p.at + 2]

\* finStr, lines 507-568: one byte of a string, one escape or one
\* separator.
K_finStr(p) ==
  IF p.at >= p.n THEN KRet(p, FALSE)
  ELSE
    LET c == At(Src(p), p.at)
        q == [p EXCEPT !.at = p.at + 1]
    IN
    IF c = Ch.quote THEN [keep(q, <<c>>) EXCEPT !.pc = "endVal"]
    ELSE IF c = Ch.bslash THEN [keep(q, <<c>>) EXCEPT !.pc = "finStrEsc"]
    ELSE IF c < Ch.sp THEN KRet(q, FALSE)
    ELSE IF c # Ch.xe2 \/ ~p.jsonp THEN keep(q, <<c>>)
    ELSE K_separator(q, c)

\* finNeg, lines 591-604.
K_finNeg(p) ==
  IF p.at >= p.n THEN KRet(p, FALSE)
  ELSE
    LET c == At(Src(p), p.at)
        q == [keep(p, <<c>>) EXCEPT !.at = p.at + 1]
    IN
    IF c = Ch.zero THEN [q EXCEPT !.pc = "fin0"]
    ELSE IF isNat(c) THEN [q EXCEPT !.pc = "fin1"]
    ELSE KRet(q, FALSE)

\* The keepskip loops over a run of digits.
KKeepNums(p) ==
  LET j == SkipNums(Src(p), p.at) IN
  [keep(p, Slice(p.mem, p.at, j)) EXCEPT !.at = j]

\* fin1, lines 606-614.
K_fin1(p) ==
  LET q == KKeepNums(p) IN
  [q EXCEPT !.pc = IF q.at = q.n THEN "endVal" ELSE "fin0"]

\* fin0 passing over the '.' without keeping it.
K_fin0DropsDot(p) ==
  IF p.at >= p.n THEN [p EXCEPT !.pc = "endVal"]
  ELSE
    LET c == At(Src(p), p.at) IN
    IF c = Ch.dot THEN [p EXCEPT !.at = p.at + 1, !.pc = "finDot"]
    ELSE IF isE(c) THEN [keep(p, <<c>>) EXCEPT !.at = p.at + 1, !.pc = "finE"]
    ELSE [p EXCEPT !.pc = "endVal"]

\* fin0, lines 616-630.
K_fin0(p) ==
  IF p.at >= p.n THEN [p EXCEPT !.pc = "endVal"]
  ELSE
    LET c == At(Src(p), p.at) IN
    IF c = Ch.dot THEN [keep(p, <<c>>) EXCEPT !.at = p.at + 1, !.pc = "finDot"]
    ELSE IF isE(c) THEN [keep(p, <<c>>) EXCEPT !.at = p.at + 1, !.pc = "finE"]
    ELSE [p EXCEPT !.pc = "endVal"]

\* finDot, lines 632-648.
K_finDot(p) ==
  IF p.at >= p.n THEN KRet(p, FALSE)
  ELSE
    LET c == At(Src(p), p.at)
        q == [p EXCEPT !.at = p.at + 1]
    IN
    IF ~isNum(c) THEN KRet(q, FALSE)
    ELSE
      LET x == KKeepNums(keep(q, <<c>>)) IN
      IF x.at < x.n /\ isE(At(Src(x), x.at))
        THEN [keep(x, <<At(Src(x), x.at)>>) EXCEPT !.at = x.at + 1, !.pc = "finE"]
        ELSE [x EXCEPT !.pc = "endVal"]

\* finE, lines 650-671.
K_finE(p) ==
  IF p.at >= p.n THEN KRet(p, FALSE)
  ELSE
    LET c == At(Src(p), p.at)
        q == [p EXCEPT !.at = p.at + 1]
    IN
    IF c = Ch.plus \/ c = Ch.minus THEN
      LET x == keep(q, <<c>>) IN
      IF x.at >= x.n THEN KRet(x, FALSE)
      ELSE
        LET d == At(Src(x), x.at)
            y == [x EXCEPT !.at = x.at + 1]
        IN
        IF ~isNum(d) THEN KRet(y, FALSE)
        ELSE [KKeepNums(keep(y, <<d>>)) EXCEPT !.pc = "endVal"]
    ELSE IF ~isNum(c) THEN KRet(q, FALSE)
    ELSE [KKeepNums(keep(q, <<c>>)) EXCEPT !.pc = "endVal"]

\* try3 / try4 with trykeep3 / trykeep4 (lines 410-424 and chkjson.go
\* 118-131): the bytes are consumed one by one while they match, and
\* kept only when all of them did.
RECURSIVE KMatched(_, _, _)
KMatched(b, at, word) ==
  IF word = <<>> THEN 0
  ELSE IF At(b, at) # Head(word) THEN 0
  ELSE 1 + KMatched(b, at + 1, Tail(word))

trykeep(p, word) ==
  IF p.at + Len(word) > p.n THEN KRet(p, FALSE)
  ELSE
    LET m == KMatched(Src(p), p.at, word) IN
    IF m = Len(word)
      THEN [keep([p EXCEPT !.at = p.at + m], word) EXCEPT !.pc = "endVal"]
      ELSE KRet([p EXCEPT !.at = p.at + m + 1], FALSE)

\* finTrue, finNull, finFalse, lines 673-683.
K_finTrue(p) == trykeep(p, <<Ch.r, Ch.u, Ch.e>>)

K_finNull(p) == trykeep(p, <<Ch.u, Ch.l, Ch.l>>)

K_finFalse(p) == trykeep(p, <<Ch.a, Ch.l, Ch.s, Ch.e>>)

\* startAndFinStr, lines 729-733, up to its call of finStr: the byte
\* afterSpace returns is kept even when there was none (c = 0).
K_startAndFinStr(p) ==
  LET b == Src(p)
      j == NextNonSpace(b, p.at)
      ok == j < Len(b)
      c == IF ok THEN At(b, j) ELSE 0
      q == keep([p EXCEPT !.at = IF ok THEN j + 1 ELSE j], <<c>>)
  IN
  IF ok /\ c = Ch.quote THEN [q EXCEPT !.pc = "finStr"] ELSE KRet(q, FALSE)

\* endVal, lines 685-727: one turn from its start label.
K_endVal(p) ==
  LET b == Src(p)
      j == NextNonSpace(b, p.at)
  IN
  IF empty(p.stack) THEN
    \* remSpace: true sends run round its loop once more
    IF j = Len(b) THEN [p EXCEPT !.at = j, !.pc = "run"]
    ELSE KRet([p EXCEPT !.at = j + 1], FALSE)
  ELSE IF j = Len(b) THEN KRet([p EXCEPT !.at = j], FALSE)
  ELSE
    LET c == At(b, j)
        q == keep([p EXCEPT !.at = j + 1], <<c>>)
    IN
    IF ~popOK(q.stack) THEN [q EXCEPT !.pc = "panic"]
    ELSE
      LET s == top(q.stack)
          x == [q EXCEPT !.stack = pop(q.stack)]
      IN
      CASE s = parseObjKey ->
             IF c = Ch.colon
               THEN [x EXCEPT !.stack = push(x.stack, parseObjVal), !.pc = "run"]
               ELSE KRet(x, FALSE)
        [] s = parseObjVal ->
             IF c = Ch.comma
               THEN [x EXCEPT !.stack = push(x.stack, parseObjKey),
                              !.pc = "startAndFinStr"]
             ELSE IF c = Ch.rbrace THEN [x EXCEPT !.pc = "endVal"]
             ELSE KRet(x, FALSE)
        [] s = parseArrVal ->
             IF c = Ch.comma
               THEN [x EXCEPT !.stack = push(x.stack, parseArrVal), !.pc = "run"]
             ELSE IF c = Ch.rbracket THEN [x EXCEPT !.pc = "endVal"]
             ELSE KRet(x, FALSE)

KDone(p) == p.pc \in {"true", "false", "panic"}

\* One method body of the compactor.
CompactorStep(p) ==
  CASE p.pc = "entry" -> K_entry(p)
    [] p.pc = "run" -> K_run(p)
    [] p.pc = "beginVal" -> K_beginVal(p)
    [] p.pc = "beginValOrEmpty" -> K_beginValOrEmpty(p)
    [] p.pc = "beginStrOrEmpty" -> K_beginStrOrEmpty(p)
    [] p.pc = "finStr" -> K_finStr(p)
    [] p.pc = "finStrEsc" -> K_finStrEsc(p)
    [] p.pc = "hex4" -> KHex(p, 4)
    [] p.pc = "hex3" -> KHex(p, 3)
    [] p.pc = "hex2" -> KHex(p, 2)
    [] p.pc = "hex1" -> KHex(p, 1)
    [] p.pc = "startAndFinStr" -> K_startAndFinStr(p)
    [] p.pc = "finNeg" -> K_finNeg(p)
    [] p.pc = "fin1" -> K_fin1(p)
    [] p.pc = "fin0" -> K_fin0(p)
    [] p.pc = "finDot" -> K_finDot(p)
    [] p.pc = "finE" -> K_finE(p)
    [] p.pc = "finTrue" -> K_finTrue(p)
    [] p.pc = "finFalse" -> K_finFalse(p)
    [] p.pc = "finNull" -> K_finNull(p)
    [] p.pc = "endVal" -> K_endVal(p)

---------------------------------------------------------------------------
\* Escape and EscapeString (part_000).  A state is the buffers plus
\* [pc, i, st, html, jsonp, opts, pre]: i and st are the loop's cursor and
\* the start of the span not yet copied, opts the options as passed and
\* pre the dst as passed.  Escape hands its bytes to EscapeString in the
\* storage they have (part_000:29), so both start here.

EscapeHTML == 0

EscapeJSONP == 1

\* hex with capital letters.
hexUpper(k) == IF k < 10 THEN Ch.zero + k ELSE Ch.A + (k - 10)

\* const hex = "0123456789abcdef", indexed from 0.
hex(k) == IF k < 10 THEN Ch.zero + k ELSE Ch.a + (k - 10)

\* safeSet with the quote in it.
safeSetQuote == (Ch.sp..Ch.del) \ {Ch.bslash}

\* The bytes below utf8.RuneSelf that need no escape: all from the space
\* to 0x7F but the quote and the backslash.
safeSet == (Ch.sp..Ch.del) \ {Ch.quote, Ch.bslash}

\* htmlSafeSet with <, > and & left in.
htmlSafeSetAll == (Ch.sp..Ch.del) \ {Ch.quote, Ch.bslash}

\* safeSet without <, > and &.
htmlSafeSet == safeSet \ {38, 60, 62}

\* utf8.DecodeRuneInString(src[i:]) for src[i] >= utf8.RuneSelf: the rune
\* and its width, or (utf8.RuneError, 1) where no well-formed sequence
\* begins: a lead byte C2..DF, E0..EF, F0..F4 with one, two, three
\* continuation bytes 80..BF, the first of them narrowed after E0, ED,
\* F0 and F4 (no overlong forms, no surrogates, nothing above U+10FFFF).
DecodeRune(b, i) ==
  LET b0 == At(b, i)
      sz == IF b0 \in 194..223 THEN 2
            ELSE IF b0 \in 224..239 THEN 3
            ELSE IF b0 \in 240..244 THEN 4
            ELSE 1
      first == CASE b0 = 224 -> 160..191
                 [] b0 = 237 -> 128..159
                 [] b0 = 240 -> 144..191
                 [] b0 = 244 -> 128..143
                 [] OTHER -> 128..191
      bad == [c |-> 65533, sz |-> 1]
  IN
  IF sz = 1 \/ Len(b) - i < sz THEN bad
  ELSE IF At(b, i + 1) \notin first THEN bad
  ELSE IF sz = 2 THEN [c |-> (b0 % 32) * 64 + (At(b, i + 1) % 64), sz |-> 2]
  ELSE IF At(b, i + 2) \notin 128..191 THEN bad
  ELSE IF sz = 3
    THEN [c |-> (b0 % 16) * 4096 + (At(b, i + 1) % 64) * 64 + (At(b, i + 2) % 64),
          sz |-> 3]
  ELSE IF At(b, i + 3) \notin 128..191 THEN bad
  ELSE [c |-> (b0 % 8) * 262144 + (At(b, i + 1) % 64) * 4096
                + (At(b, i + 2) % 64) * 64 + (At(b, i + 3) % 64),
        sz |-> 4]

\* EscapeInit starting from an empty dst.
EscapeInitEmptyDst(buf, opts) ==
  [mem |-> buf.mem, n |-> buf.n, alias |-> buf.alias, w |-> buf.w,
   out |-> <<>>, pre |-> buf.out, opts |-> opts, pc |-> "opts",
   i |-> 0, st |-> 0, html |-> FALSE, jsonp |-> FALSE]

EscapeInit(buf, opts) ==
  [mem |-> buf.mem, n |-> buf.n, alias |-> buf.alias, w |-> buf.w,
   out |-> buf.out, pre |-> buf.out, opts |-> opts, pc |-> "opts",
   i |-> 0, st |-> 0, html |-> FALSE, jsonp |-> FALSE]

\* EscapeString, part_000:36-92: the loop over the options (lines 39-46),
\* then one turn of the loop over src (lines 49-90), then the return
\* (line 91).
EscapeStep(p) ==
  LET src == Src(p) IN
  IF p.pc = "opts" THEN
    [p EXCEPT !.html = \E k \in 1..Len(p.opts) : p.opts[k] = EscapeHTML,
              !.jsonp = \E k \in 1..Len(p.opts) : p.opts[k] = EscapeJSONP,
              !.pc = "loop"]
  ELSE IF p.i >= Len(src) THEN
    [AppendBytes(p, Slice(src, p.st, Len(src))) EXCEPT !.pc = "done"]
  ELSE
    LET c == At(src, p.i)
        q == AppendBytes(p, Slice(src, p.st, p.i))
    IN
    IF c < 128 THEN
      IF c \in htmlSafeSet \/ (~p.html /\ c \in safeSet)
        THEN [p EXCEPT !.i = p.i + 1]
        ELSE
          [AppendBytes(q,
             CASE c = Ch.quote \/ c = Ch.bslash -> <<Ch.bslash, c>>
               [] c = Ch.lf -> <<Ch.bslash, Ch.n>>
               [] c = Ch.cr -> <<Ch.bslash, Ch.r>>
               [] c = Ch.tab -> <<Ch.bslash, Ch.t>>
               [] OTHER -> <<Ch.bslash, Ch.u, Ch.zero, Ch.zero,
                             hex(c \div 16), hex(c % 16)>>)
             EXCEPT !.i = p.i + 1, !.st = p.i + 1]
    ELSE
      LET r == DecodeRune(src, p.i) IN
      IF r.c = 65533 /\ r.sz = 1 THEN
        [AppendBytes(q, <<Ch.bslash, Ch.u, Ch.f, Ch.f, Ch.f, 100>>)
           EXCEPT !.i = p.i + 1, !.st = p.i + 1]
      ELSE IF (r.c = 8232 \/ r.c = 8233) /\ p.jsonp THEN
        [AppendBytes(q, <<Ch.bslash, Ch.u, Ch.two, Ch.zero, Ch.two,
                          hex(r.c % 16)>>)
           EXCEPT !.i = p.i + r.sz, !.st = p.i + r.sz]
      ELSE [p EXCEPT !.i = p.i + r.sz]

---------------------------------------------------------------------------
\* The reference: RFC 8259's grammar as a recursive-descent recognizer,
\* written from the grammar and sharing nothing with the engines above.
\* Each Ref operator takes a 0-based index and returns the index after
\* what it recognized, or -1.

RefWsSet == {32, 9, 10, 13}
RefDigits == 48..57
RefHexSet == (48..57) \cup (65..70) \cup (97..102)
RefEscSet == {34, 92, 47, 98, 102, 110, 114, 116}

RECURSIVE RefWs(_, _)
RefWs(b, i) ==
  IF i < Len(b) /\ b[i + 1] \in RefWsSet THEN RefWs(b, i + 1) ELSE i

RECURSIVE RefDigitRun(_, _)
RefDigitRun(b, i) ==
  IF i < Len(b) /\ b[i + 1] \in RefDigits THEN RefDigitRun(b, i + 1) ELSE i

\* The literal word (a sequence of byte codes) at index i.
RefWord(b, i, word) ==
  IF i + Len(word) <= Len(b) /\ \A k \in 1..Len(word) : b[i + k] = word[k]
    THEN i + Len(word) ELSE -1

\* string = quotation-mark *char quotation-mark; i is after the opening quote.
RECURSIVE RefChars(_, _)
RefChars(b, i) ==
  IF i >= Len(b) THEN -1
  ELSE IF b[i + 1] = 34 THEN i + 1
  ELSE IF b[i + 1] = 92 THEN
    IF i + 1 >= Len(b) THEN -1
    ELSE IF b[i + 2] \in RefEscSet THEN RefChars(b, i + 2)
    ELSE IF b[i + 2] = 117 /\ i + 6 <= Len(b)
            /\ \A k \in 3..6 : b[i + k] \in RefHexSet THEN RefChars(b, i + 6)
    ELSE -1
  ELSE IF b[i + 1] < 32 THEN -1
  ELSE RefChars(b, i + 1)

\* frac and exp, after the integer part ended at i.
RefExp(b, i) ==
  IF i < Len(b) /\ b[i + 1] \in {101, 69} THEN
    LET j == IF i + 1 < Len(b) /\ b[i + 2] \in {43, 45} THEN i + 2 ELSE i + 1
        k == RefDigitRun(b, j)
    IN IF k > j THEN k ELSE -1
  ELSE i

RefFrac(b, i) ==
  IF i < Len(b) /\ b[i + 1] = 46 THEN
    LET k == RefDigitRun(b, i + 1) IN IF k > i + 1 THEN RefExp(b, k) ELSE -1
  ELSE RefExp(b, i)

\* number = [ minus ] int [ frac ] [ exp ]
RefNumber(b, i) ==
  LET j == IF i < Len(b) /\ b[i + 1] = 45 THEN i + 1 ELSE i IN
  IF j >= Len(b) THEN -1
  ELSE IF b[j + 1] = 48 THEN RefFrac(b, j + 1)
  ELSE IF b[j + 1] \in 49..57 THEN RefFrac(b, RefDigitRun(b, j + 1))
  ELSE -1

RECURSIVE RefValue(_, _)
RECURSIVE RefElems(_, _)
RECURSIVE RefMembers(_, _)

\* value = false / null / true / object / array / number / string
RefValue(b, i) ==
  IF i >= Len(b) THEN -1
  ELSE
    LET c == b[i + 1] IN
    CASE c = 123 ->
           LET j == RefWs(b, i + 1) IN
           IF j < Len(b) /\ b[j + 1] = 125 THEN j + 1 ELSE RefMembers(b, j)
      [] c = 91 ->
           LET j == RefWs(b, i + 1) IN
           IF j < Len(b) /\ b[j + 1] = 93 THEN j + 1 ELSE RefElems(b, j)
      [] c = 34 -> RefChars(b, i + 1)
      [] c = 116 -> RefWord(b, i, <<116, 114, 117, 101>>)
      [] c = 102 -> RefWord(b, i, <<102, 97, 108, 115, 101>>)
      [] c = 110 -> RefWord(b, i, <<110, 117, 108, 108>>)
      [] OTHER -> RefNumber(b, i)

\* value *( value-separator value ) end-array; i is at the first value.
RefElems(b, i) ==
  LET j == RefValue(b, i) IN
  IF j < 0 THEN -1
  ELSE
    LET k == RefWs(b, j) IN
    IF k >= Len(b) THEN -1
    ELSE IF b[k + 1] = 93 THEN k + 1
    ELSE IF b[k + 1] = 44 THEN RefElems(b, RefWs(b, k + 1))
    ELSE -1

\* member *( value-separator member ) end-object; i is at the first key.
RefMembers(b, i) ==
  IF i >= Len(b) \/ b[i + 1] # 34 THEN -1
  ELSE
    LET j == RefChars(b, i + 1) IN
    IF j < 0 THEN -1
    ELSE
      LET k == RefWs(b, j) IN
      IF k >= Len(b) \/ b[k + 1] # 58 THEN -1
      ELSE
        LET m == RefValue(b, RefWs(b, k + 1)) IN
        IF m < 0 THEN -1
        ELSE
          LET q == RefWs(b, m) IN
          IF q >= Len(b) THEN -1
          ELSE IF b[q + 1] = 125 THEN q + 1
          ELSE IF b[q + 1] = 44 THEN RefMembers(b, RefWs(b, q + 1))
          ELSE -1

\* JSON-text = ws value ws
RefValid(b) ==
  LET j == RefValue(b, RefWs(b, 0)) IN j >= 0 /\ RefWs(b, j) = Len(b)

---------------------------------------------------------------------------
\* The inputs.

\* One byte of every class the engines tell apart.
Alphabet ==
  {Ch.tab, Ch.lf, Ch.cr, Ch.us, Ch.sp, Ch.quote, Ch.plus, Ch.comma, Ch.minus,
   Ch.dot, Ch.zero, Ch.one, Ch.colon, Ch.E, Ch.lbracket, Ch.bslash,
   Ch.rbracket, Ch.a, Ch.e, Ch.f, Ch.l, Ch.n, Ch.r, Ch.s, Ch.t, Ch.u,
   Ch.z, Ch.lbrace, Ch.rbrace, Ch.x80, Ch.xa8, Ch.xe2}

\* Every byte sequence over Alphabet up to this length is an input.
MaxLen == 2

Short == UNION {[1..k -> Alphabet] : k \in 0..MaxLen}

\* The inputs of TestMost, chkjson_test.go:15-110, but for the two that
\* nest 1000 deep (lines 69 and 88), which Deep stands for.
TestMost ==
  { <<>>,   \*
    <<32, 32, 32>>,   \*
    <<32, 122>>,   \*  z
    <<32, 49, 32, 32, 49>>,   \*  1  1
    <<32, 49, 32, 32, 123, 125>>,   \*  1  {}
    <<32, 49, 32, 32, 91, 93>>,   \*  1  []
    <<32, 49, 32, 32, 116, 114, 117, 101>>,   \*  1  true
    <<32, 49, 32, 32, 110, 117, 108, 108>>,   \*  1  null
    <<32, 49, 32, 32, 34, 110, 34>>,   \*  1  "n"
    <<34, 226>>,
    <<34, 226, 121, 34>>,
    <<34, 102, 111, 111, 34>>,   \* "foo"
    <<34, 226, 128, 168, 226, 128, 169, 34>>,
    <<32, 34, 92, 117, 97, 97, 97, 97, 34, 32>>,   \*  "\uaaaa"
    <<32, 34, 92, 117, 97, 97, 97, 97, 92, 117, 97, 97, 97, 97, 34, 32>>,   \*  "\uaaaa\uaaaa"
    <<32, 34, 92>>,   \*  "\
    <<32, 34, 92, 122>>,   \*  "\z
    <<32, 34, 102, 0, 111, 34>>,
    <<32, 34, 102, 111, 111>>,   \*  "foo
    <<32, 34, 92, 117, 97, 122, 97, 97, 34, 32>>,   \*  "\uazaa"
    <<49>>,   \* 1
    <<32, 32, 48, 32>>,   \*   0
    <<32, 48, 101, 49, 32>>,   \*  0e1
    <<49, 46>>,   \* 1.
    <<49, 122>>,   \* 1z
    <<32, 48, 101, 43, 48, 32>>,   \*  0e+0
    <<32, 45, 48, 101, 43, 48, 32>>,   \*  -0e+0
    <<45, 48>>,   \* -0
    <<49, 101, 54>>,   \* 1e6
    <<49, 101, 43, 54>>,   \* 1e+6
    <<45, 49, 101, 43, 54>>,   \* -1e+6
    <<45, 48, 101, 43, 54>>,   \* -0e+6
    <<32, 45, 49, 48, 51, 101, 43, 49, 32>>,   \*  -103e+1
    <<45, 48, 46, 48, 49, 101, 43, 48, 48, 54>>,   \* -0.01e+006
    <<45, 122>>,   \* -z
    <<45>>,   \* -
    <<49, 101>>,   \* 1e
    <<49, 101, 43>>,   \* 1e+
    <<32, 48, 51, 101, 43, 49, 32>>,   \*  03e+1
    <<32, 49, 101, 46, 49, 32>>,   \*  1e.1
    <<32, 48, 48, 32>>,   \*  00
    <<49, 46, 101, 51>>,   \* 1.e3
    <<48, 49, 101, 43, 54>>,   \* 01e+6
    <<45, 48, 46, 48, 49, 101, 43, 48, 46, 54>>,   \* -0.01e+0.6
    <<123, 125>>,   \* {}
    <<123, 34, 102, 111, 111, 34, 58, 32, 51, 125>>,   \* {"foo": 3}
    <<32, 123, 125, 32, 32, 32, 32>>,   \*  {}
    <<123, 34, 102, 111, 111, 34, 58, 32, 91, 123, 34, 34, 58, 51, 44, 32, 34, 52, 34, 58, 32, 34, 51, 34, 125, 44, 32, 52, 44, 32, 123, 125, 93, 44, 32, 34, 116, 95, 119, 111, 34, 58, 32, 49, 125>>,   \* {"foo": [{"":3, "4": "3"}, 4, {}], "t_wo": 1}
    <<32, 123, 34, 102, 111, 111, 34, 58, 32, 50, 44, 34, 102, 117, 100, 103, 101, 125>>,   \*  {"foo": 2,"fudge}
    <<123, 123, 34, 102, 111, 111, 34, 58, 32, 125, 125>>,   \* {{"foo": }}
    <<123, 34, 102, 111, 111, 34, 58, 32, 116, 114, 117, 101, 44, 32, 102, 32, 34, 97, 34, 58, 32, 116, 114, 117, 101, 125>>,   \* {"foo": true, f "a": true}
    <<123, 123, 34, 102, 111, 111, 34, 58, 32, 91, 123, 34, 34, 58, 51, 44, 32, 52, 58, 32, 34, 51, 34, 125, 44, 32, 52, 44, 32, 34, 53, 34, 58, 32, 123, 52, 125, 93, 125, 44, 32, 34, 116, 95, 119, 111, 34, 58, 32, 49, 125>>,   \* {{"foo": [{"":3, 4: "3"}, 4, "5": {4}]}, "t_wo": 1}
    <<123, 34, 92, 117, 97, 97, 97, 97, 92, 117, 97, 97, 97, 97, 34, 32, 58, 32, 116, 114, 117, 101, 125>>,   \* {"\uaaaa\uaaaa" : true}
    <<123, 34, 226, 128, 168, 226, 128, 169, 34, 58, 32, 116, 114, 117, 101, 125>>,
    <<123>>,   \* {
    <<123, 34, 102, 111, 111, 34>>,   \* {"foo"
    <<123, 34, 102, 111, 111, 34, 44, 102, 125>>,   \* {"foo",f}
    <<123, 34, 102, 111, 111, 34, 44>>,   \* {"foo",
    <<123, 34, 102, 111, 111, 34, 102>>,   \* {"foo"f
    <<123, 125, 125>>,   \* {}}
    <<91, 93>>,   \* []
    <<91, 32, 93>>,   \* [ ]
    <<91, 32, 49, 44, 32, 123, 125, 93>>,   \* [ 1, {}]
    <<91, 49, 44, 32, 50, 44, 32, 51, 44, 32, 52, 44, 32, 123, 125, 93>>,   \* [1, 2, 3, 4, {}]
    <<91>>,   \* [
    <<91, 49, 44>>,   \* [1,
    <<91, 49, 97>>,   \* [1a
    <<91, 49, 97, 93>>,   \* [1a]
    <<91, 93, 93>>,   \* []]
    <<116, 114, 117, 101>>,   \* true
    <<32, 32, 32, 116, 114, 117, 101, 32>>,   \*    true
    <<116, 114, 117>>,   \* tru
    <<102, 97, 108, 115, 101>>,   \* false
    <<32, 32, 116, 114, 117, 101, 32, 102>>,   \*   true f
    <<102, 97, 108, 115>>,   \* fals
    <<102, 97, 108, 115, 101, 101>>,   \* falsee
    <<110, 117, 108, 108, 32>>,   \* null
    <<32, 110, 117, 108, 108, 32>>,   \*  null
    <<110, 117, 108>>,   \* nul
    <<32, 110, 117, 108, 108, 108, 32>> }   \*  nulll

\* The inputs of TestCompactSeparators, part_004:15-20, behind 0 to 4
\* spaces.
Separators ==
  { <<123, 34, 226, 128, 168, 34, 58, 49, 125>>,
    <<32, 123, 34, 226, 128, 168, 34, 58, 49, 125>>,
    <<32, 32, 123, 34, 226, 128, 168, 34, 58, 49, 125>>,
    <<32, 32, 32, 123, 34, 226, 128, 168, 34, 58, 49, 125>>,
    <<32, 32, 32, 32, 123, 34, 226, 128, 168, 34, 58, 49, 125>>,
    <<123, 34, 226, 128, 169, 34, 58, 50, 125>>,
    <<32, 123, 34, 226, 128, 169, 34, 58, 50, 125>>,
    <<32, 32, 123, 34, 226, 128, 169, 34, 58, 50, 125>>,
    <<32, 32, 32, 123, 34, 226, 128, 169, 34, 58, 50, 125>>,
    <<32, 32, 32, 32, 123, 34, 226, 128, 169, 34, 58, 50, 125>> }

\* As TestCompactSeparators varies the spaces in front of a separator
\* (part_004:19-20): strings of one to MaxRun separators, U+2028 and
\* U+2029 in turn, behind up to MaxPad spaces; two such strings in an
\* array with up to MaxPad removable spaces in front of each; and 0xE2
\* before the closing quote, before 0x80 and the closing quote, and
\* opening U+2030.
MaxPad == 5

MaxRun == 3

SeparatorRuns ==
  LET Pad(k) == [i \in 1..k |-> Ch.sp]
      Run(m) == [i \in 1..(3 * m) |->
                  CASE i % 3 = 1 -> Ch.xe2
                    [] i % 3 = 2 -> Ch.x80
                    [] OTHER -> IF (i \div 3) % 2 = 1 THEN Ch.xa8 ELSE Ch.xa9]
      Str(m) == <<Ch.quote>> \o Run(m) \o <<Ch.quote>>
  IN {Pad(k) \o Str(m) : k \in 0..MaxPad, m \in 1..MaxRun}
     \cup {<<Ch.lbracket>> \o Pad(j) \o Str(1) \o <<Ch.comma>> \o Pad(k)
              \o Str(2) \o <<Ch.rbracket>> : j \in 0..MaxPad, k \in 0..MaxPad}
     \cup {<<Ch.quote, Ch.xe2, Ch.quote>>,
           <<Ch.quote, Ch.xe2, Ch.x80, Ch.quote>>,
           <<Ch.quote, Ch.xe2, Ch.x80, 176, Ch.quote>>}

\* Documents that between them take every branch of the grammar.
Docs ==
  { <<123, 34, 97, 34, 58, 49, 44, 34, 98, 34, 58, 91, 50, 44, 51, 93, 125>>,   \* {"a":1,"b":[2,3]}
    <<123, 32, 34, 97, 34, 32, 58, 32, 49, 32, 44, 32, 34, 98, 34, 32, 58, 32, 91, 49, 44, 32, 50, 93, 32, 125>>,   \* { "a" : 1 , "b" : [1, 2] }
    <<34, 92, 117, 49, 50, 97, 70, 92, 110, 34>>,   \* "\u12aF\n"
    <<45, 49, 50, 46, 53, 101, 43, 51>>,   \* -12.5e+3
    <<91, 116, 114, 117, 101, 44, 102, 97, 108, 115, 101, 44, 110, 117, 108, 108, 93>>,   \* [true,false,null]
    <<91, 32, 34, 120, 32, 121, 34, 32, 44, 32, 123, 125, 32, 93>>,   \* [ "x y" , {} ]
    <<34, 97, 226, 128, 168, 34>>,
    <<32, 34, 226, 128, 169, 34>>,
    <<32, 32, 32, 91, 34, 226, 128, 168, 226, 128, 168, 34, 93>> }

\* k arrays inside one another (chkjson_test.go:88).
Nest(k) == [i \in 1..(2 * k) |-> IF i <= k THEN Ch.lbracket ELSE Ch.rbracket]

\* k objects inside one another around an empty one (chkjson_test.go:69):
\* {"f": k times, {}, and k closing braces.
NestObj(k) ==
  [i \in 1..(6 * k + 2) |->
     IF i > 5 * k + 1 THEN Ch.rbrace
     ELSE IF i = 5 * k + 1 THEN Ch.lbrace
     ELSE <<Ch.lbrace, Ch.quote, Ch.f, Ch.quote, Ch.colon>>[((i - 1) % 5) + 1]]

\* Nesting as deep as the stack's fixed base and one deeper: arrays, whole
\* and cut off after the first closing bracket; [1,2] inside StackBase
\* arrays; and objects.
Deep ==
  { Nest(StackBase), Nest(StackBase + 1),
    SubSeq(Nest(StackBase + 1), 1, StackBase + 2),
    SubSeq(Nest(StackBase), 1, StackBase)
      \o <<Ch.lbracket, Ch.one, Ch.comma, Ch.two, Ch.rbracket>>
      \o SubSeq(Nest(StackBase), StackBase + 1, 2 * StackBase),
    NestObj(StackBase - 1), NestObj(StackBase) }

\* The bytes an edit puts into a document.
EditBytes == {Ch.sp, Ch.quote, Ch.zero, Ch.comma, Ch.rbrace, Ch.bslash}

\* A document with one byte dropped, replaced or inserted, or cut short.
Edits(d) ==
  {SubSeq(d, 1, i - 1) \o SubSeq(d, i + 1, Len(d)) : i \in 1..Len(d)}
  \cup {[d EXCEPT ![i] = c] : i \in 1..Len(d), c \in EditBytes}
  \cup {SubSeq(d, 1, i) \o <<c>> \o SubSeq(d, i + 1, Len(d)) :
          i \in 0..Len(d), c \in EditBytes}
  \cup {SubSeq(d, 1, i) : i \in 0..Len(d)}

Inputs ==
  Short \cup TestMost \cup Separators \cup SeparatorRuns \cup Deep \cup Docs
    \cup UNION {Edits(d) : d \in Docs}

---------------------------------------------------------------------------
\* The harness: as TestMost and Fuzz do, every entry point is called in
\* turn on the same input, each on storage of its own, and the results
\* are kept side by side.

VARIABLES data, call, p, res, pos

vars == <<data, call, p, res, pos>>

\* The calls, in the order they are made.
Ops ==
  <<"Valid",                   \* Valid(data)
    "AppendCompact",           \* AppendCompact(nil, data), compact.go:22
    "Compact",                 \* Compact(copy of data)
    "AppendCompactSelf",       \* AppendCompact(data[:0], data), compact.go:22
    "AppendCompactJSONP",      \* AppendCompactJSONP(nil, data)
    "AppendCompactJSONPSelf",  \* AppendCompactJSONP(data[:0], data)
    "StackAppendCompact",      \* AppendCompact(nil, data), compact.go:360
    "StackAppendCompactSelf",  \* AppendCompact(data[:0], data), compact.go:360
    "AppendCompactAgain",      \* AppendCompact(nil, AppendCompact(nil, data))
    "AppendCompactDst",        \* AppendCompact(dst, data), len(dst) > 0
    "ValidCompacted">>         \* Valid(AppendCompact(nil, data))

OpSet == {Ops[i] : i \in 1..Len(Ops)}

\* The spare capacity cap(data) - len(data) of an input slice is at most
\* this.
MaxSpare == 1

Spare(k) == [i \in 1..k |-> 0]

\* The contents of a non-empty dst handed to AppendCompact.
DstPrefixes == {<<Ch.z>>, <<Ch.lbracket, Ch.one>>}

\* A returned (slice, bool): out is the slice's contents, absent says it
\* is nil, shared that it begins at &data[0], aborted that the call
\* panicked instead of returning.
NoResult ==
  [done |-> FALSE, ok |-> FALSE, out |-> <<>>, absent |-> TRUE,
   shared |-> FALSE, aborted |-> FALSE]

Result(ok, out, absent, shared, aborted) ==
  [done |-> TRUE, ok |-> ok, out |-> out, absent |-> absent,
   shared |-> shared, aborted |-> aborted]

Idle == [pc |-> "idle"]

Init ==
  /\ data \in Inputs
  /\ call = "idle"
  /\ p = Idle
  /\ res = [o \in OpSet |-> NoResult]
  /\ pos = 0

Ready(op) == call = "idle" /\ pos < Len(Ops) /\ Ops[pos + 1] = op

Leave(result) ==
  /\ res' = [res EXCEPT ![call] = result]
  /\ call' = "idle"
  /\ p' = Idle
  /\ pos' = pos + 1
  /\ UNCHANGED data

Advance(state) == p' = state /\ UNCHANGED <<data, call, res, pos>>

PackOps == {"AppendCompact", "AppendCompactSelf", "AppendCompactAgain", "AppendCompactDst"}

CompactorOps ==
  {"AppendCompactJSONP", "AppendCompactJSONPSelf", "StackAppendCompact",
   "StackAppendCompactSelf"}

\* chkjson_test.go:120
CallValid ==
  /\ Ready("Valid")
  /\ call' = "Valid"
  /\ p' = ValidInit
  /\ UNCHANGED <<data, res, pos>>

\* chkjson_test.go:134-135: AppendCompact hands its bytes unchanged to
\* AppendCompactString (compact.go:23), so one call stands for both.
CallAppendCompact ==
  /\ Ready("AppendCompact")
  /\ call' = "AppendCompact"
  /\ p' = PackInit(Buffers(data, <<>>, FALSE, <<>>))
  /\ UNCHANGED <<data, res, pos>>

\* chkjson_test.go:147
CallCompact ==
  /\ Ready("Compact")
  /\ call' = "Compact"
  /\ p' = CompactInit(data)
  /\ UNCHANGED <<data, res, pos>>

\* part_004:90, with the AppendCompact of compact.go:22
CallAppendCompactSelf ==
  \E k \in 0..MaxSpare :
    /\ Ready("AppendCompactSelf")
    /\ call' = "AppendCompactSelf"
    /\ p' = PackInit(Buffers(data, Spare(k), TRUE, <<>>))
    /\ UNCHANGED <<data, res, pos>>

CallAppendCompactJSONP ==
  /\ Ready("AppendCompactJSONP")
  /\ call' = "AppendCompactJSONP"
  /\ p' = CompactorInit(Buffers(data, <<>>, FALSE, <<>>), TRUE, Far)
  /\ UNCHANGED <<data, res, pos>>

\* fuzz.go:31
CallAppendCompactJSONPSelf ==
  \E k \in 0..MaxSpare :
    /\ Ready("AppendCompactJSONPSelf")
    /\ call' = "AppendCompactJSONPSelf"
    /\ p' = CompactorInit(Buffers(data, Spare(k), TRUE, <<>>), TRUE, 0)
    /\ UNCHANGED <<data, res, pos>>

CallStackAppendCompact ==
  /\ Ready("StackAppendCompact")
  /\ call' = "StackAppendCompact"
  /\ p' = CompactorInit(Buffers(data, <<>>, FALSE, <<>>), FALSE, Far)
  /\ UNCHANGED <<data, res, pos>>

\* fuzz.go:19, with the AppendCompact of compact.go:360
CallStackAppendCompactSelf ==
  \E k \in 0..MaxSpare :
    /\ Ready("StackAppendCompactSelf")
    /\ call' = "StackAppendCompactSelf"
    /\ p' = CompactorInit(Buffers(data, Spare(k), TRUE, <<>>), FALSE, 0)
    /\ UNCHANGED <<data, res, pos>>

\* part_004:64-80: the compact form is compacted once more.
CallAppendCompactAgain ==
  /\ Ready("AppendCompactAgain")
  /\ call' = "AppendCompactAgain"
  /\ p' = PackInit(Buffers(res["AppendCompact"].out, <<>>, FALSE, <<>>))
  /\ UNCHANGED <<data, res, pos>>

CallAppendCompactDst ==
  \E pre \in DstPrefixes :
    /\ Ready("AppendCompactDst")
    /\ call' = "AppendCompactDst"
    /\ p' = PackInit(Buffers(data, <<>>, FALSE, pre))
    /\ UNCHANGED <<data, res, pos>>

\* fuzz.go:44-50: Valid is handed what AppendCompact(nil, data) returned.
CallValidCompacted ==
  /\ Ready("ValidCompacted")
  /\ call' = "ValidCompacted"
  /\ p' = ValidInit
  /\ UNCHANGED <<data, res, pos>>

StepValid ==
  /\ call \in {"Valid", "ValidCompacted"}
  /\ ~VDone(p)
  /\ Advance(ValidStep(IF call = "Valid" THEN data
                       ELSE res["AppendCompact"].out, p))

StepPack == call \in PackOps /\ ~PDone(p) /\ Advance(PackStep(p))

StepCompact == call = "Compact" /\ ~PDone(p) /\ Advance(CompactStep(p))

StepCompactor == call \in CompactorOps /\ ~KDone(p) /\ Advance(CompactorStep(p))

\* Valid's return, chkjson.go:542.
ReturnValid ==
  /\ call \in {"Valid", "ValidCompacted"}
  /\ VDone(p)
  /\ Leave(Result(p.pc = "true", <<>>, TRUE, FALSE, p.pc = "panic"))

\* ReturnPack handing back dst on failure too.
ReturnPackPartial ==
  /\ call \in PackOps
  /\ PDone(p)
  /\ Leave(Result(p.pc = "ok", Dst(p), FALSE, p.alias, p.pc = "panic"))

\* AppendCompactString's returns, compact.go:30-41: (nil, false) or
\* (dst, true).
ReturnPack ==
  /\ call \in PackOps
  /\ PDone(p)
  /\ Leave(IF p.pc = "ok" THEN Result(TRUE, Dst(p), FALSE, p.alias, FALSE)
           ELSE Result(FALSE, <<>>, TRUE, FALSE, p.pc = "panic"))

\* Compact's returns, fuzz.go:281-292: (nil, false) or (b[:w], true).
ReturnCompact ==
  /\ call = "Compact"
  /\ PDone(p)
  /\ Leave(IF p.pc = "ok" THEN Result(TRUE, Dst(p), FALSE, TRUE, FALSE)
           ELSE Result(FALSE, <<>>, TRUE, FALSE, p.pc = "panic"))

\* The stack-based entry points' returns, compact.go:362-366 and
\* 382-386: (dst, false) when src holds only spaces, else p.dst with
\* what run returned.  In "return p.dst, p.run()" the field is read after
\* the call, as the gc compiler orders it and as TestCompactSeparators
\* needs to see the bytes run appended.  A nil dst nothing was appended to
\* is still nil.
ReturnCompactor ==
  /\ call \in CompactorOps
  /\ KDone(p)
  /\ Leave(IF p.pc = "panic" THEN Result(FALSE, <<>>, TRUE, FALSE, TRUE)
           ELSE Result(p.pc = "true", Dst(p), ~p.alias /\ Dst(p) = <<>>,
                       p.alias, FALSE))

Next ==
  \/ CallValid \/ CallValidCompacted \/ StepValid \/ ReturnValid
  \/ CallAppendCompact \/ CallAppendCompactSelf \/ CallAppendCompactAgain
  \/ CallAppendCompactDst \/ StepPack \/ ReturnPack
  \/ CallCompact \/ StepCompact \/ ReturnCompact
  \/ CallAppendCompactJSONP \/ CallAppendCompactJSONPSelf
  \/ CallStackAppendCompact \/ CallStackAppendCompactSelf
  \/ StepCompactor \/ ReturnCompactor

Spec == Init /\ [][Next]_vars

\* The same calls on the inputs of the tests, the documents and every
\* single byte.
LiveInit ==
  /\ data \in TestMost \cup Separators \cup Deep \cup Docs
               \cup {<<c>> : c \in Alphabet}
  /\ call = "idle"
  /\ p = Idle
  /\ res = [o \in OpSet |-> NoResult]
  /\ pos = 0

\* The calls run on one goroutine with nothing to wait for: a step that
\* can be taken is taken.
LiveSpec == LiveInit /\ [][Next]_vars /\ WF_vars(Next)


---------------------------------------------------------------------------
\* The harness of Escape: as TestEscape does (part_003:39-47), Escape and
\* EscapeString are called on the same input with each list of options,
\* and the results are kept side by side.

\* Every byte sequence up to this length over the bytes Escape tells
\* apart is an input.
MaxEscLen == 3

\* The second input of TestEscape, part_003:20:
\* "\xffz\n\r\t\"\x00\x1f<>\u2028\u2029\u2030&"
EscHard ==
  <<255, 122, 10, 13, 9, 34, 0, 31, 60, 62, 226, 128, 168, 226, 128, 169,
    226, 128, 176, 38>>

\* The inputs: the short ones, those of TestEscape, and UTF-8 of every
\* width, well-formed and not (a surrogate, an overlong form, a code
\* point above U+10FFFF, sequences cut short, U+FFFD itself).
EscInputs ==
  LET A == {0, Ch.tab, Ch.lf, Ch.cr, Ch.us, Ch.quote, 38, 60, 62, Ch.bslash,
            Ch.z, Ch.del, Ch.x80, Ch.xa8, Ch.xa9, Ch.xe2, 255}
  IN UNION {[1..k -> A] : k \in 0..MaxEscLen}
     \cup {<<Ch.f, 111, 111>>, EscHard,
           <<194, 169>>, <<240, 159, 152, 128>>, <<239, 191, 189>>,
           <<237, 160, 128>>, <<224, 128, 128>>, <<244, 144, 128, 128>>,
           <<240, 159, 152>>, <<Ch.z, 226, 128, 176, 60>>,
           <<60, 226, 128, 168, 38, 226, 128, 169, 62>>}

\* The calls, in the order they are made: the name the result is kept
\* under, the options, and the contents dst may have.
EscCalls ==
  <<[op |-> "Escape", opts |-> <<>>, dsts |-> {<<>>}],
    [op |-> "EscapeHTML", opts |-> <<EscapeHTML>>, dsts |-> {<<>>}],
    [op |-> "EscapeJSONP", opts |-> <<EscapeJSONP>>, dsts |-> {<<>>}],
    [op |-> "EscapeBoth", opts |-> <<EscapeHTML, EscapeJSONP>>,
     dsts |-> {<<>>}],
    [op |-> "EscapeBothSwapped", opts |-> <<EscapeJSONP, EscapeHTML>>,
     dsts |-> {<<>>}],
    [op |-> "EscapeHTMLTwice", opts |-> <<EscapeHTML, EscapeHTML>>,
     dsts |-> {<<>>}],
    [op |-> "EscapeString", opts |-> <<EscapeHTML, EscapeJSONP>>,
     dsts |-> {<<>>}],
    [op |-> "EscapeDst", opts |-> <<EscapeHTML, EscapeJSONP>>,
     dsts |-> DstPrefixes]>>

EscInit ==
  /\ data \in EscInputs
  /\ call = "idle"
  /\ p = Idle
  /\ res = [o \in {EscCalls[k].op : k \in 1..Len(EscCalls)} |-> NoResult]
  /\ pos = 0

\* part_003:40-41
CallEscape ==
  /\ call = "idle"
  /\ pos < Len(EscCalls)
  /\ \E d \in EscCalls[pos + 1].dsts :
       p' = EscapeInit(Buffers(data, <<>>, FALSE, d), EscCalls[pos + 1].opts)
  /\ call' = EscCalls[pos + 1].op
  /\ UNCHANGED <<data, res, pos>>

StepEscape ==
  /\ call # "idle"
  /\ p.pc # "done"
  /\ Advance(EscapeStep(p))

\* part_000:91: a nil dst nothing was appended to is still nil.
ReturnEscape ==
  /\ call # "idle"
  /\ p.pc = "done"
  /\ Leave(Result(TRUE, Dst(p), Dst(p) = <<>>, FALSE, FALSE))

EscNext == CallEscape \/ StepEscape \/ ReturnEscape

EscSpec == EscInit /\ [][EscNext]_vars

---------------------------------------------------------------------------
\* What a compactor has to return: the input without the spaces, tabs,
\* line feeds and carriage returns that stand outside its strings.
\* Written from the definition of compaction, sharing nothing with the
\* engines.
RECURSIVE RefStrip(_, _, _, _)
RefStrip(b, i, inStr, esc) ==
  IF i > Len(b) THEN <<>>
  ELSE IF inStr
    THEN <<b[i]>> \o RefStrip(b, i + 1, esc \/ b[i] # 34, ~esc /\ b[i] = 92)
  ELSE IF b[i] \in RefWsSet THEN RefStrip(b, i + 1, FALSE, FALSE)
  ELSE <<b[i]>> \o RefStrip(b, i + 1, b[i] = 34, FALSE)

RefCompact(b) == RefStrip(b, 1, FALSE, FALSE)

\* The number of U+2028 / U+2029 (E2 80 A8, E2 80 A9) in b.
RefSeparators(b) ==
  Cardinality({i \in 1..(Len(b) - 2) :
                 b[i] = 226 /\ b[i + 1] = 128 /\ b[i + 2] \in {168, 169}})

Returned(op) == res[op].done

---------------------------------------------------------------------------
\* C1: for every byte sequence b, Valid(b) returns true exactly when b is
\* one well-formed RFC 8259 value with nothing but space, tab, CR and LF
\* around it: Valid agrees with the reference recognizer on every input,
\* and returns on every input.
C1_ValidAgreesWithReference ==
  Returned("Valid") =>
    ~res["Valid"].aborted /\ res["Valid"].ok = RefValid(data)

\* Valid has accepted a document with objects, arrays and spaces in it,
\* and the reference accepts it too.
C1_Witness ==
  /\ Returned("Valid")
  /\ res["Valid"].ok
  /\ RefValid(data)
  /\ Ch.lbrace \in {data[i] : i \in 1..Len(data)}
  /\ Ch.lbracket \in {data[i] : i \in 1..Len(data)}
  /\ Ch.sp \in {data[i] : i \in 1..Len(data)}

\* C2: the boolean every compaction entry point returns equals Valid(b):
\* AppendCompact(nil, b) and AppendCompactString(nil, string(b)) (one
\* call, the first hands its bytes to the second), Compact(copy of b),
\* AppendCompactJSONP(b[:0], b), and with them the other calls of the
\* harness on b.
C2_CompactionOkEqualsValid ==
  \A op \in OpSet \ {"Valid", "AppendCompactAgain", "ValidCompacted"} :
    Returned(op) => ~res[op].aborted /\ res[op].ok = res["Valid"].ok

\* All of them have returned true on a valid document with a separator
\* behind leading spaces.
C2_Witness ==
  /\ data \in Separators
  /\ data[1] = Ch.sp
  /\ res["Valid"].ok
  /\ \A op \in OpSet \ {"Valid", "AppendCompactAgain", "ValidCompacted"} :
       Returned(op) /\ res[op].ok

\* C3: for valid src, AppendCompact(nil, src) returns src with every
\* space, tab, CR and LF outside a string removed and every other byte
\* kept in order.
C3_AppendCompactRemovesOuterSpace ==
  \A op \in {"AppendCompact", "StackAppendCompact"} :
    Returned(op) /\ RefValid(data) =>
      res[op].ok /\ res[op].out = RefCompact(data)

\* { "a" : 1 , "b" : [1, 2] } has come back as {"a":1,"b":[1,2]}.
C3_Witness ==
  /\ Returned("AppendCompact")
  /\ data = <<123, 32, 34, 97, 34, 32, 58, 32, 49, 32, 44, 32, 34, 98, 34,
              32, 58, 32, 91, 49, 44, 32, 50, 93, 32, 125>>
  /\ res["AppendCompact"].out =
       <<123, 34, 97, 34, 58, 49, 44, 34, 98, 34, 58, 91, 49, 44, 50, 93, 125>>

\* C4: for invalid src and any dst, AppendCompact(dst, src),
\* AppendCompactString(dst, src) and Compact(src) return (nil, false).
C4_InvalidReturnsNil ==
  \A op \in {"AppendCompact", "AppendCompactSelf", "AppendCompactDst", "Compact"} :
    Returned(op) /\ ~RefValid(data) =>
      /\ ~res[op].aborted
      /\ ~res[op].ok
      /\ res[op].absent
      /\ res[op].out = <<>>

\* [1, has been refused by all of them: the violation is found after
\* three bytes were written.
C4_Witness ==
  /\ data = <<Ch.lbracket, Ch.one, Ch.comma>>
  /\ \A op \in {"AppendCompact", "AppendCompactSelf", "AppendCompactDst", "Compact"} :
       Returned(op) /\ res[op].absent /\ ~res[op].ok

\* The labels of packAny and compact at which src[start:at] is still to
\* be copied.
SpanLabels == {"finStr", "finObjKey", "finNeg", "fin1", "fin0", "finE"}

\* The first byte of the input an in-place call has yet to read.
Unread(q) ==
  IF call \in {"Compact", "AppendCompactSelf"} /\ q.pc \in SpanLabels
    THEN q.start
    ELSE q.at

InPlaceOps == {"Compact", "AppendCompactSelf", "StackAppendCompactSelf"}

\* C5: on a grammar violation AppendCompactJSONP(dst, src), and the
\* stack-based AppendCompact sharing its compactor, return an empty or
\* absent buffer with false, never bytes written before the violation
\* was found.
C5_ViolationReturnsEmpty ==
  \A op \in CompactorOps :
    Returned(op) /\ ~res[op].ok => res[op].out = <<>>

\* C6: during in-place compaction without JSONP escaping, Compact(b) or
\* AppendCompact(src[:0], src), the write cursor is at every step at most
\* the read cursor, and no byte of the input still to be read has been
\* overwritten.
C6_WriteNeverPassesRead ==
  call \in InPlaceOps /\ p.pc # "panic" =>
    /\ DstLen(p) <= p.at
    /\ \A i \in (Unread(p) + 1)..p.n : p.mem[i] = data[i]

\* C7: for valid src, AppendCompact(src[:0], src) never reallocates: the
\* slice it returns begins at &src[0].
C7_SelfAppendKeepsStorage ==
  \A op \in {"AppendCompactSelf", "StackAppendCompactSelf"} :
    Returned(op) /\ RefValid(data) => res[op].shared

\* A document without a byte to remove has been compacted onto itself:
\* the output fills the input's storage to its last byte.
C7_Witness ==
  /\ Returned("AppendCompactSelf")
  /\ Returned("StackAppendCompactSelf")
  /\ res["AppendCompactSelf"].shared
  /\ res["StackAppendCompactSelf"].shared
  /\ Len(data) > 8
  /\ res["AppendCompactSelf"].out = data

\* C8: for valid x, len(AppendCompact(nil, x)) <= len(x), and
\* len(AppendCompact(nil, x)) <= len(AppendCompactJSONP(nil, x))
\* <= len(x) + 3k for k the number of U+2028 / U+2029 in x.
C8_LengthBounds ==
  Returned("AppendCompactJSONP") /\ RefValid(data) =>
    /\ Len(res["AppendCompact"].out) <= Len(data)
    /\ Len(res["AppendCompact"].out) <= Len(res["AppendCompactJSONP"].out)
    /\ Len(res["AppendCompactJSONP"].out)
         <= Len(data) + 3 * RefSeparators(data)

\* A document with two separators has been compacted both ways, and the
\* JSONP form is six bytes longer.
C8_Witness ==
  /\ Returned("AppendCompactJSONP")
  /\ res["AppendCompactJSONP"].ok
  /\ RefSeparators(data) = 2
  /\ Len(res["AppendCompactJSONP"].out) = Len(res["AppendCompact"].out) + 6

\* C9: for valid b, Compact(copy of b) and AppendCompact(b[:0], b) return
\* the bytes AppendCompact(nil, b) returns.
C9_InPlaceEqualsAppend ==
  \A op \in {"Compact", "AppendCompactSelf", "StackAppendCompactSelf"} :
    Returned(op) /\ RefValid(data) =>
      res[op].out = res["AppendCompact"].out

\* The in-place calls have returned on a document they had to shorten.
C9_Witness ==
  /\ \A op \in {"Compact", "AppendCompactSelf", "StackAppendCompactSelf"} :
       Returned(op) /\ res[op].ok /\ res[op].out = res["AppendCompact"].out
  /\ Len(res["Compact"].out) + 5 < Len(data)

\* C10: compaction is idempotent: for valid x,
\* AppendCompact(nil, AppendCompact(nil, x)) = AppendCompact(nil, x).
C10_CompactIdempotent ==
  Returned("AppendCompactAgain") /\ RefValid(data) =>
    /\ res["AppendCompactAgain"].ok
    /\ res["AppendCompactAgain"].out = res["AppendCompact"].out

\* The compact form of a document with spaces in it has been compacted
\* again and came back unchanged.
C10_Witness ==
  /\ Returned("AppendCompactAgain")
  /\ res["AppendCompactAgain"].ok
  /\ res["AppendCompactAgain"].out = res["AppendCompact"].out
  /\ Len(res["AppendCompact"].out) < Len(data)
  /\ Ch.comma \in {data[i] : i \in 1..Len(data)}

\* C11: for every valid x the output of AppendCompact(nil, x) is itself
\* valid JSON: Valid(AppendCompact(nil, x)) is true.
C11_CompactOutputIsValid ==
  Returned("ValidCompacted") /\ RefValid(data) =>
    /\ res["AppendCompact"].ok
    /\ ~res["ValidCompacted"].aborted
    /\ res["ValidCompacted"].ok

\* Valid has accepted the compact form of a document that had spaces
\* inside its object and array.
C11_Witness ==
  /\ Returned("ValidCompacted")
  /\ res["ValidCompacted"].ok
  /\ Len(res["AppendCompact"].out) + 5 < Len(data)
  /\ Ch.lbrace \in {data[i] : i \in 1..Len(data)}
  /\ Ch.lbracket \in {data[i] : i \in 1..Len(data)}

\* What JSONP escaping has to make of compact JSON b: every E2 80 A8 and
\* E2 80 A9 becomes the six bytes \u2028 and \u2029, every other byte
\* stays.  In valid JSON a byte above 0x7F stands only inside a string.
RECURSIVE RefEscapeSeparators(_, _)
RefEscapeSeparators(b, i) ==
  IF i > Len(b) THEN <<>>
  ELSE IF /\ i + 2 <= Len(b)
          /\ b[i] = 226 /\ b[i + 1] = 128 /\ b[i + 2] \in {168, 169}
    THEN <<92, 117, 50, 48, 50, IF b[i + 2] = 168 THEN 56 ELSE 57>>
           \o RefEscapeSeparators(b, i + 3)
  ELSE <<b[i]>> \o RefEscapeSeparators(b, i + 1)

\* C12: for every valid src, AppendCompactJSONP(nil, src) equals
\* AppendCompact(nil, src) with each E2 80 A8 / E2 80 A9 replaced by the
\* six bytes \u2028 / \u2029 and no other byte changed (a 0xE2 followed
\* by other bytes, or by fewer than two bytes, is copied through);
\* AppendCompact, of either engine, leaves the raw three bytes as they are.
C12_JSONPEscapesOnlySeparators ==
  /\ Returned("AppendCompactJSONP") /\ RefValid(data) =>
        /\ res["AppendCompactJSONP"].out
             = RefEscapeSeparators(res["AppendCompact"].out, 1)
        /\ res["AppendCompact"].out = RefCompact(data)
  /\ Returned("StackAppendCompact") /\ RefValid(data) =>
        res["StackAppendCompact"].out = RefCompact(data)

\* A valid document with one separator and one 0xE2 that opens none has
\* gone through both: three bytes longer with JSONP, the other 0xE2 kept.
C12_Witness ==
  /\ Returned("StackAppendCompact")
  /\ res["AppendCompactJSONP"].ok
  /\ RefSeparators(data) = 1
  /\ Cardinality({i \in 1..Len(data) : data[i] = Ch.xe2}) = 2
  /\ Len(res["AppendCompactJSONP"].out) = Len(res["AppendCompact"].out) + 3
  /\ res["StackAppendCompact"].out = res["AppendCompact"].out
  /\ Cardinality({i \in 1..Len(res["AppendCompactJSONP"].out) :
                    res["AppendCompactJSONP"].out[i] = Ch.xe2}) = 1

\* C13: for every valid src, with several separators and any amount of
\* removable space, AppendCompactJSONP(src[:0], src) returns the bytes
\* AppendCompactJSONP(nil, copy of src) returns, and while it runs no
\* byte of src it has yet to read has been overwritten.
C13_JSONPInPlaceEqualsAppend ==
  /\ Returned("AppendCompactJSONPSelf") /\ RefValid(data) =>
        /\ res["AppendCompactJSONPSelf"].ok
        /\ res["AppendCompactJSONPSelf"].out = res["AppendCompactJSONP"].out
  /\ call = "AppendCompactJSONPSelf" /\ p.pc # "panic" =>
        \A i \in (p.at + 1)..p.n : p.mem[i] = data[i]

\* Three separators have been escaped inside src's own storage, the
\* spaces removed before them having made the room.
C13_Witness ==
  /\ Returned("AppendCompactJSONPSelf")
  /\ res["AppendCompactJSONPSelf"].ok
  /\ res["AppendCompactJSONPSelf"].shared
  /\ RefSeparators(data) = 3
  /\ res["AppendCompactJSONPSelf"].out = res["AppendCompactJSONP"].out

\* C14: every call of Valid, AppendCompact, AppendCompactJSONP and
\* Compact on a finite input terminates with a result: inside a call the
\* read cursor never moves back, and no engine goes round a cycle of
\* states, so every call the harness makes returns.
C14_EveryCallReturns ==
  /\ [][call' = call /\ call # "idle" => p'.at >= p.at]_vars
  /\ <>(\A op \in OpSet : Returned(op))

\* Every call has returned on a document that nests objects and arrays
\* behind spaces.
C14_Witness ==
  /\ \A op \in OpSet : Returned(op) /\ ~res[op].aborted
  /\ res["Valid"].ok
  /\ Len(data) > 20
  /\ Ch.sp \in {data[i] : i \in 1..Len(data)}

\* C15: for every byte sequence given as input (truncated, malformed
\* escape, unbalanced delimiters, empty, ...) Valid, AppendCompact,
\* AppendCompactJSONP and Compact return a boolean and never abort: no
\* index is out of range, the stack is never popped or replaced while
\* empty, and the JSONP path never looks up the last byte of an empty dst.
C15_NeverAborts ==
  /\ p.pc # "panic"
  /\ \A op \in OpSet : ~res[op].aborted

\* 1] has been refused by every call: the closing bracket came with the
\* stack empty.
C15_Witness ==
  /\ data = <<Ch.one, Ch.rbracket>>
  /\ \A op \in OpSet : Returned(op) /\ ~res[op].ok /\ ~res[op].aborted

\* C16: Valid(b), and AppendCompact / AppendCompactString called with a
\* dst that does not alias the source, leave every byte of the source as
\* it was, for valid and invalid inputs alike.  Valid has no store at
\* all (ValidStep hands back nothing but its own state); for the others
\* the source's array holds the input at every step of the call.
C16_SourceUnchanged ==
  /\ call \in {"AppendCompact", "AppendCompactDst", "StackAppendCompact"} =>
        ~p.alias /\ p.mem = data
  /\ call = "AppendCompactAgain" =>
        ~p.alias /\ p.mem = res["AppendCompact"].out

\* AppendCompact(dst, src) has come to its return with a non-empty dst
\* and a src it had spaces to remove from.
C16_Witness ==
  /\ call = "AppendCompactDst"
  /\ p.pc = "ok"
  /\ Len(p.out) + 5 < Len(data)
  /\ p.mem = data

\* C17: for valid src and a dst that does not alias it,
\* AppendCompact(dst, src) returns dst's original bytes unchanged followed
\* by exactly the compact form of src: dst ++ AppendCompact(nil, src).
\* The bytes dst came with stay in front at every step of the call.
C17_AppendsAfterDst ==
  /\ call = "AppendCompactDst" =>
        /\ Len(Dst(p)) >= Len(p.pre)
        /\ SubSeq(Dst(p), 1, Len(p.pre)) = p.pre
        /\ p.pc = "ok" => Dst(p) = p.pre \o res["AppendCompact"].out
  /\ Returned("AppendCompactDst") /\ RefValid(data) =>
        /\ res["AppendCompactDst"].ok
        /\ \E pre \in DstPrefixes :
             res["AppendCompactDst"].out = pre \o res["AppendCompact"].out

\* [1 was passed as dst with a src that had spaces to lose, and came
\* back in front of the compact form.
C17_Witness ==
  /\ Returned("AppendCompactDst")
  /\ res["AppendCompactDst"].ok
  /\ Len(res["AppendCompact"].out) + 5 < Len(data)
  /\ res["AppendCompactDst"].out
       = <<Ch.lbracket, Ch.one>> \o res["AppendCompact"].out

---------------------------------------------------------------------------
\* What Escape has to emit, written from the rules of JSON string
\* escaping and of well-formed UTF-8 (the Unicode Standard, table 3-7),
\* sharing nothing with EscapeStep and DecodeRune.

\* The well-formed byte sequences: the ranges of each byte in turn.
RefUtf8 ==
  { <<194..223, 128..191>>,
    <<{224}, 160..191, 128..191>>,
    <<(225..236) \cup {238, 239}, 128..191, 128..191>>,
    <<{237}, 128..159, 128..191>>,
    <<{240}, 144..191, 128..191, 128..191>>,
    <<241..243, 128..191, 128..191, 128..191>>,
    <<{244}, 128..143, 128..191, 128..191>> }

\* The width of the well-formed sequence that begins at b[i], or 0.
RefUtf8Len(b, i) ==
  LET fits == {t \in RefUtf8 :
                 /\ i + Len(t) - 1 <= Len(b)
                 /\ \A k \in 1..Len(t) : b[i + k - 1] \in t[k]}
  IN IF fits = {} THEN 0 ELSE Len(CHOOSE t \in fits : TRUE)

\* \u00XX with the two lowercase hex digits of c.
RefU00(c) ==
  LET digits == <<48, 49, 50, 51, 52, 53, 54, 55, 56, 57,
                  97, 98, 99, 100, 101, 102>>
  IN <<92, 117, 48, 48, digits[(c \div 16) + 1], digits[(c % 16) + 1]>>

RECURSIVE RefEscape(_, _, _, _)
RefEscape(b, i, html, jsonp) ==
  IF i > Len(b) THEN <<>>
  ELSE
    LET c == b[i]
        w == RefUtf8Len(b, i)
    IN
    IF c < 128 THEN
      (CASE c = 34 -> <<92, 34>>
         [] c = 92 -> <<92, 92>>
         [] c = 10 -> <<92, 110>>
         [] c = 13 -> <<92, 114>>
         [] c = 9 -> <<92, 116>>
         [] c < 32 /\ c \notin {9, 10, 13} -> RefU00(c)
         [] c \in {38, 60, 62} /\ html -> RefU00(c)
         [] OTHER -> <<c>>) \o RefEscape(b, i + 1, html, jsonp)
    ELSE IF w = 0 THEN
      <<92, 117, 102, 102, 102, 100>> \o RefEscape(b, i + 1, html, jsonp)
    ELSE IF jsonp /\ SubSeq(b, i, i + w - 1) = <<226, 128, 168>> THEN
      <<92, 117, 50, 48, 50, 56>> \o RefEscape(b, i + 3, html, jsonp)
    ELSE IF jsonp /\ SubSeq(b, i, i + w - 1) = <<226, 128, 169>> THEN
      <<92, 117, 50, 48, 50, 57>> \o RefEscape(b, i + 3, html, jsonp)
    ELSE SubSeq(b, i, i + w - 1) \o RefEscape(b, i + w, html, jsonp)

\* b with every <, > and & replaced by its \u00XX escape.
RECURSIVE RefEscapeHTML(_, _)
RefEscapeHTML(b, i) ==
  IF i > Len(b) THEN <<>>
  ELSE (IF b[i] \in {38, 60, 62} THEN RefU00(b[i]) ELSE <<b[i]>>)
         \o RefEscapeHTML(b, i + 1)

\* How often one of the bytes of set occurs in b.
RefCount(b, set) == Cardinality({i \in 1..Len(b) : b[i] \in set})

\* C18: for every src and every list of options, Escape emits \" for a
\* quote and \\ for a backslash; \n, \r, \t for LF, CR, TAB and \u00XX
\* with lowercase hex for every other byte below 0x20; \ufffd for each
\* byte that does not begin a valid UTF-8 sequence; and every other byte
\* (0x7F and the bytes of valid multi-byte sequences no option captures
\* among them) unchanged and in order.
C18_EscapeEncoding ==
  \A k \in 1..Len(EscCalls) :
    Returned(EscCalls[k].op) /\ EscCalls[k].dsts = {<<>>} =>
      res[EscCalls[k].op].out =
        RefEscape(data, 1,
                  \E j \in 1..Len(EscCalls[k].opts) :
                     EscCalls[k].opts[j] = EscapeHTML,
                  \E j \in 1..Len(EscCalls[k].opts) :
                     EscCalls[k].opts[j] = EscapeJSONP)

\* The second input of TestEscape has come back from Escape without
\* options as the test expects it.
C18_Witness ==
  /\ data = EscHard
  /\ Returned("Escape")
  /\ res["Escape"].out =
       <<92, 117, 102, 102, 102, 100, 122, 92, 110, 92, 114, 92, 116, 92,
       34, 92, 117, 48, 48, 48, 48, 92, 117, 48, 48, 49, 102, 60, 62, 226,
       128, 168, 226, 128, 169, 226, 128, 176, 38>>

\* C19: the two options act independently: <, > and & come out as
\* \u003c, \u003e, \u0026 iff EscapeHTML is among the options and raw
\* otherwise, U+2028 / U+2029 come out as \u2028 / \u2029 iff EscapeJSONP
\* is among them and as their three bytes otherwise, and neither the
\* order nor the repetition of the options changes the result.
C19_OptionsIndependent ==
  /\ Returned("Escape") =>
        /\ RefCount(res["Escape"].out, {38}) = RefCount(data, {38})
        /\ RefCount(res["Escape"].out, {60}) = RefCount(data, {60})
        /\ RefCount(res["Escape"].out, {62}) = RefCount(data, {62})
        /\ RefSeparators(res["Escape"].out) = RefSeparators(data)
  /\ Returned("EscapeHTML") =>
        /\ res["EscapeHTML"].out = RefEscapeHTML(res["Escape"].out, 1)
        /\ RefSeparators(res["EscapeHTML"].out) = RefSeparators(data)
  /\ Returned("EscapeJSONP") =>
        /\ res["EscapeJSONP"].out = RefEscapeSeparators(res["Escape"].out, 1)
        /\ RefCount(res["EscapeJSONP"].out, {38, 60, 62})
             = RefCount(data, {38, 60, 62})
  /\ Returned("EscapeBoth") =>
        res["EscapeBoth"].out
          = RefEscapeHTML(RefEscapeSeparators(res["Escape"].out, 1), 1)
  /\ Returned("EscapeBothSwapped") =>
        res["EscapeBothSwapped"].out = res["EscapeBoth"].out
  /\ Returned("EscapeHTMLTwice") =>
        res["EscapeHTMLTwice"].out = res["EscapeHTML"].out

\* <, &, > and both separators in one input: the four results differ
\* from one another, and the order of the options made no difference.
C19_Witness ==
  /\ data = <<60, 226, 128, 168, 38, 226, 128, 169, 62>>
  /\ Returned("EscapeHTMLTwice")
  /\ res["Escape"].out = data
  /\ Len(res["EscapeHTML"].out) = Len(data) + 15
  /\ Len(res["EscapeJSONP"].out) = Len(data) + 6
  /\ Len(res["EscapeBoth"].out) = Len(data) + 21
  /\ res["EscapeBothSwapped"].out = res["EscapeBoth"].out

\* C20: Escape is a pure append: Escape(dst, src, opts) returns dst's
\* original bytes unchanged followed by an encoding that depends only on
\* src and opts (the same for any dst and for repeated calls), src is not
\* modified, and Escape and EscapeString return identical bytes for the
\* same content.
C20_EscapeAppends ==
  /\ call # "idle" =>
        /\ Src(p) = data
        /\ Len(Dst(p)) >= Len(p.pre)
        /\ SubSeq(Dst(p), 1, Len(p.pre)) = p.pre
  /\ call = "EscapeDst" /\ p.pc = "done" =>
        Dst(p) = p.pre \o res["EscapeBoth"].out
  /\ Returned("EscapeDst") =>
        \E pre \in DstPrefixes :
          res["EscapeDst"].out = pre \o res["EscapeBoth"].out
  /\ Returned("EscapeString") =>
        res["EscapeString"].out = res["EscapeBoth"].out

\* The second input of TestEscape was escaped behind [1 and came back as
\* [1 and what the test expects with both options.
C20_Witness ==
  /\ data = EscHard
  /\ Returned("EscapeDst")
  /\ res["EscapeString"].out = res["EscapeBoth"].out
  /\ res["EscapeDst"].out = <<Ch.lbracket, Ch.one>> \o
       <<92, 117, 102, 102, 102, 100, 122, 92, 110, 92, 114, 92, 116, 92,
       34, 92, 117, 48, 48, 48, 48, 92, 117, 48, 48, 49, 102, 92, 117, 48,
       48, 51, 99, 92, 117, 48, 48, 51, 101, 92, 117, 50, 48, 50, 56, 92,
       117, 50, 48, 50, 57, 226, 128, 176, 92, 117, 48, 48, 50, 54>>

---------------------------------------------------------------------------
\* The storage of AppendCompactJSONP's output.

JSONPOps == {"AppendCompactJSONP", "AppendCompactJSONPSelf"}

\* U+2028 or U+2029 begins at the 0-based index r of b.
RefSeparatorAt(b, r) ==
  /\ r + 3 <= Len(b)
  /\ b[r + 1] = 226 /\ b[r + 2] = 128 /\ b[r + 3] \in {168, 169}

\* The number of spaces b begins with.
RefLeadingSpaces(b) ==
  Cardinality({k \in 1..Len(b) : \A j \in 1..k : b[j] = 32})

\* C23: AppendCompactJSONP(src[:0], src), still writing into src's storage
\* with w bytes written, comes to a U+2028 / U+2029 whose first byte is at
\* read index r: it moves the output to a freshly allocated buffer iff
\* r - w < 3 and otherwise writes the six bytes into src's storage; with i
\* spaces in front of {"<sep>":1} the result is in a new buffer iff i <= 2.
C23_MovesIffNoRoom ==
  /\ [][call = "AppendCompactJSONPSelf" /\ p.pc = "finStr" /\ p.alias
          /\ RefSeparatorAt(data, p.at)
        => /\ p'.alias = ~(p.at - p.w < 3)
           /\ p'.alias => p'.w = p.w + 6 /\ p'.fresh = 0
           /\ ~p'.alias =>
                /\ p'.fresh > 0
                /\ p'.mem = p.mem
                /\ Len(p'.out) = p.w + 6
                /\ SubSeq(p'.out, 1, p.w) = SubSeq(p.mem, 1, p.w)]_vars
  /\ [](data \in Separators /\ Returned("AppendCompactJSONPSelf") =>
          res["AppendCompactJSONPSelf"].shared = ~(RefLeadingSpaces(data) <= 2))

\* With three spaces in front the separator was escaped inside src's
\* storage, r - w being exactly 3.
C23_Witness ==
  /\ data = <<32, 32, 32, 123, 34, 226, 128, 168, 34, 58, 49, 125>>
  /\ Returned("AppendCompactJSONPSelf")
  /\ res["AppendCompactJSONPSelf"].shared
  /\ res["AppendCompactJSONPSelf"].out
       = <<123, 34, 92, 117, 50, 48, 50, 56, 34, 58, 49, 125>>

\* C24: within one AppendCompactJSONP call, once the output has been moved
\* to a freshly allocated buffer, every later write of the call goes to a
\* buffer apart from src's storage, the writer never goes back to the
\* original buffer, and the slice returned does not alias src.
C24_NeverBackToSrc ==
  /\ [](call \in JSONPOps /\ p.fresh > 0 => ~p.alias /\ p.dist = Far)
  /\ [][(call \in JSONPOps) /\ p.fresh > 0 /\ call' = call
        => (/\ p'.fresh = p.fresh
            /\ p'.mem = p.mem
            /\ Len(p'.out) >= Len(p.out)
            /\ p.out = SubSeq(p'.out, 1, Len(p.out)))]_vars
  /\ [][(call \in JSONPOps) /\ p.fresh > 0 /\ call' = "idle"
        => ~res'[call].shared /\ p.out = res'[call].out]_vars

\* The output was moved at the first of two separators, the second was
\* escaped into the new buffer, and the slice returned is not src's.
C24_Witness ==
  /\ data = <<34, 226, 128, 168, 226, 128, 169, 34>>
  /\ Returned("AppendCompactJSONPSelf")
  /\ res["AppendCompactJSONPSelf"].ok
  /\ ~res["AppendCompactJSONPSelf"].shared
  /\ Len(res["AppendCompactJSONPSelf"].out) = 14

\* The most the compactor can still write for b[r:]: every byte of it,
\* and three bytes more for each separator in it.
RefWorst(b, r) ==
  (Len(b) - r)
    + 3 * Cardinality({k \in r..(Len(b) - 3) : RefSeparatorAt(b, k)})

\* C25: when AppendCompactJSONP makes a fresh buffer, its capacity is at
\* least the number of bytes already written plus the worst-case output
\* size of the input not yet consumed, each remaining three-byte separator
\* counting for six bytes.
C25_FreshBufferHoldsWorstCase ==
  call \in JSONPOps /\ ~KDone(p) /\ CompactorStep(p).fresh > p.fresh =>
    CompactorStep(p).fresh >= DstLen(p) + RefWorst(data, p.at)

---------------------------------------------------------------------------
\* The nesting stack and the input read so far.

ValidOps == {"Valid", "ValidCompacted"}

\* The bytes the running call was handed.
Subject == IF call = "ValidCompacted" THEN res["AppendCompact"].out ELSE data

\* The number of { and [ less the number of } and ] among the first k
\* bytes of b, the bytes inside strings left out.
RECURSIVE RefOpen(_, _, _, _, _)
RefOpen(b, i, k, inStr, esc) ==
  IF i > k THEN 0
  ELSE IF inStr
    THEN RefOpen(b, i + 1, k, esc \/ b[i] # 34, ~esc /\ b[i] = 92)
  ELSE (CASE b[i] \in {91, 123} -> 1
          [] b[i] \in {93, 125} -> -1
          [] OTHER -> 0) + RefOpen(b, i + 1, k, b[i] = 34, FALSE)

RefDepth(b, k) == RefOpen(b, 1, k, FALSE, FALSE)

StackSize(st) == Len(st.base) + Len(st.ext)

\* The bytes the engine has acted on: at beginVal and finVal the byte in
\* c has been taken from the input and is about to be acted on.
Processed(q) == IF q.pc \in {"beginVal", "finVal"} THEN q.at - 1 ELSE q.at

\* C28: at every moment of a run of Valid or of the compactor, the size
\* of the nesting stack is the number of objects and arrays opened and
\* not yet closed: an entry is pushed when { or [ is taken and removed
\* when the matching closer is.
C28_StackSizeIsDepth ==
  /\ [](call \in ValidOps \cup CompactorOps /\ p.pc \notin {"false", "panic"} =>
          StackSize(p.stack) = RefDepth(Subject, Processed(p)))
  /\ [][(call \in ValidOps \cup CompactorOps) /\ call' = call
          /\ p'.pc \notin {"false", "panic"}
          /\ StackSize(p'.stack) < StackSize(p.stack)
        => \/ /\ Subject[Processed(p')] = 93
              /\ top(p.stack) = parseArrVal
           \/ /\ Subject[Processed(p')] = 125
              /\ top(p.stack) \in {parseObjKey, parseObjVal}]_vars

\* Valid stands behind the 33rd opening bracket with 33 entries on the
\* stack.
C28_Witness ==
  /\ call = "Valid"
  /\ data = Nest(StackBase + 1)
  /\ p.at = StackBase + 1
  /\ p.pc = "beginValOrEmpty"
  /\ StackSize(p.stack) = StackBase + 1

\* The labels of Valid that begin by skipping spaces, and those that read
\* the next byte as it is.
SkipLabels == {"start", "beginStrOrEmpty", "beginValOrEmpty", "endVal"}

ByteLabels ==
  {"finStr", "finNeg", "finDot", "finE", "finTrue", "finFalse", "finNull"}

\* Nothing is left for the label q.pc to read.
EndReached(b, q) ==
  \/ q.pc \in SkipLabels /\ \A i \in (q.at + 1)..Len(b) : b[i] \in RefWsSet
  \/ q.pc \in ByteLabels /\ q.at >= Len(b)

\* C27: Valid returns true only from a state in which the read cursor is
\* len(input), the stack is empty and one complete value has been
\* recognized with only whitespace after it; when the end of the input is
\* reached with a non-empty stack, or while a value is still expected or
\* unfinished, the result is false.
C27_TrueOnlyAtCleanEnd ==
  /\ [](call \in ValidOps /\ p.pc = "true" =>
          /\ p.at = Len(Subject)
          /\ p.stack = EmptyStack
          /\ RefValid(Subject))
  /\ [][(call \in ValidOps) /\ call' = call /\ p.pc # "true" /\ p'.pc = "true"
        => /\ p.pc = "endVal"
           /\ p.stack = EmptyStack
           /\ \A i \in (p.at + 1)..Len(Subject) : Subject[i] \in RefWsSet]_vars
  /\ [][(call \in ValidOps) /\ call' = call /\ EndReached(Subject, p)
          /\ (p.pc # "endVal" \/ StackSize(p.stack) > 0)
        => p'.pc = "false"]_vars
  /\ [][(call \in ValidOps) /\ call' = call /\ p.pc \in {"fin1", "fin0"}
          /\ p.at >= Len(Subject)
        => p'.pc = "endVal" /\ p'.stack = p.stack]_vars

\* Valid has said true to a document of some length that ends in a space.
C27_Witness ==
  /\ call = "Valid"
  /\ p.pc = "true"
  /\ Len(data) > 20
  /\ data[Len(data)] = Ch.sp
  /\ Ch.lbrace \in {data[i] : i \in 1..Len(data)}

\* C30: Valid appends to the stack's overflow slice only when the nesting
\* depth is 32 already: in every reachable state a non-empty overflow
\* slice goes with a full inline array (end = 32), and while the input is
\* nested at most 32 deep the overflow slice is not touched.
C30_OverflowOnlyPastBase ==
  /\ [](call \in ValidOps =>
          /\ Len(p.stack.base) <= StackBase
          /\ Len(p.stack.ext) > 0 => Len(p.stack.base) = StackBase
          /\ p.pc \notin {"false", "panic"}
               /\ RefDepth(Subject, Processed(p)) <= StackBase
               => p.stack.ext = <<>>)
  /\ [][(call \in ValidOps) /\ call' = call /\ p'.stack.ext # p.stack.ext
        => /\ Len(p.stack.base) = StackBase
           /\ Len(p'.stack.base) = StackBase]_vars

\* Valid has opened 33 arrays: the inline array is full and the overflow
\* slice holds the one entry more.
C30_Witness ==
  /\ call = "Valid"
  /\ data = Nest(StackBase + 1)
  /\ Len(p.stack.base) = StackBase
  /\ p.stack.ext = <<parseArrVal>>

----------------------------------------------------------------------------
\* parseStateStack on its own: push, replace and pop in any order, beside
\* the sequence an unbounded stack would hold.  p.stack is the
\* parseStateStack, p.ideal the sequence, p.ret what the last pop returned.

StackOps == {"push", "replace", "pop"}

StackSyms == {parseObjKey, parseObjVal, parseArrVal}

\* The deepest the stack is driven: three entries past StackBase.
MaxDepth == 35

\* Any entry may be written at the StackLow lowest positions and from
\* StackWindow positions below StackBase upward; between them the entry
\* written is fixed by the position.
StackLow == 2

StackWindow == 2

Choices(k) ==
  IF k <= StackLow \/ k > StackBase - StackWindow THEN StackSyms
  ELSE {<<parseObjKey, parseObjVal, parseArrVal>>[(k % 3) + 1]}

StackInit ==
  /\ data = <<>>
  /\ call = "idle"
  /\ p = [stack |-> EmptyStack, ideal |-> <<>>, ret |-> "none"]
  /\ res = <<>>
  /\ pos = 0

StackPush ==
  /\ Len(p.ideal) < MaxDepth
  /\ \E s \in Choices(Len(p.ideal) + 1) :
       p' = [stack |-> push(p.stack, s), ideal |-> Append(p.ideal, s),
             ret |-> "none"]
  /\ call' = "push"
  /\ UNCHANGED <<data, res, pos>>

StackReplace ==
  /\ p.ideal # <<>>
  /\ \E s \in Choices(Len(p.ideal)) :
       p' = [stack |-> replace(p.stack, s),
             ideal |-> [p.ideal EXCEPT ![Len(p.ideal)] = s],
             ret |-> "none"]
  /\ call' = "replace"
  /\ UNCHANGED <<data, res, pos>>

\* pop returns the entry it finds on top and takes it off.
StackPop ==
  /\ p.ideal # <<>>
  /\ p' = [stack |-> pop(p.stack),
           ideal |-> SubSeq(p.ideal, 1, Len(p.ideal) - 1),
           ret |-> top(p.stack)]
  /\ call' = "pop"
  /\ UNCHANGED <<data, res, pos>>

StackNext == StackPush \/ StackReplace \/ StackPop

StackSpec == StackInit /\ [][StackNext]_vars

\* C29: under any sequence of push, replace and pop with pop and replace
\* applied to a non-empty stack only, parseStateStack is an unbounded LIFO
\* stack: it holds what the ideal stack holds, inline array first, pop
\* returns the ideal stack's last entry, and empty() is true iff the ideal
\* stack is empty, below, at and above depth 32.
C29_StackIsLIFO ==
  /\ [](call \in StackOps =>
          /\ p.stack.base \o p.stack.ext = p.ideal
          /\ empty(p.stack) <=> p.ideal = <<>>
          /\ popOK(p.stack) <=> p.ideal # <<>>)
  /\ [][call' = "pop" => p'.ret = p.ideal[Len(p.ideal)]]_vars

\* A pop has brought the depth from 33 back to 32 and returned an entry
\* that differs from the one now on top.
C29_Witness ==
  /\ call = "pop"
  /\ Len(p.ideal) = StackBase
  /\ p.ret = parseObjKey
  /\ p.ideal[StackBase] = parseObjVal
  /\ p.ideal[1] = parseArrVal

----------------------------------------------------------------------------
\* The bytes of the input one block reads.  Every block reads upward from
\* its cursor, so what it reads is told by one number: one more than the
\* highest index it reads, or the cursor itself when it reads nothing.

EngineOps == ValidOps \cup PackOps \cup {"Compact"} \cup CompactorOps

\* A read of b[j] guarded by j < len(b), as the last step of a loop that
\* stopped at j or on its own.
SpanEnd(b, j) == IF j < Len(b) THEN j + 1 ELSE j

\* Valid, chkjson.go:545-863, label by label.
VReadEnd(b, v) ==
  LET at == v.at IN
  CASE v.pc \in {"entry", "start", "beginStrOrEmpty", "beginValOrEmpty",
                 "endVal"} ->
         SpanEnd(b, NextNonSpace(b, at))
    [] v.pc = "beginVal" -> at
    [] v.pc = "finVal" ->
         IF popOK(v.stack) /\ top(v.stack) = parseObjVal /\ v.c = Ch.comma
           THEN SpanEnd(b, NextNonSpace(b, at))
           ELSE at
    [] v.pc = "finStr" ->
         IF at >= Len(b) THEN at
         ELSE IF At(b, at) # Ch.bslash THEN at + 1
         ELSE IF at + 1 >= Len(b) THEN at + 1
         ELSE IF At(b, at + 1) # Ch.u THEN at + 2
         ELSE IF (at + 2) + 3 < Len(b) THEN at + 6
         ELSE at + 2
    [] v.pc \in {"finNeg", "fin0"} -> SpanEnd(b, at)
    [] v.pc = "fin1" -> SpanEnd(b, SkipNums(b, at))
    [] v.pc = "finDot" ->
         IF at >= Len(b) THEN at
         ELSE IF ~isNum(At(b, at)) THEN at + 1
         ELSE SpanEnd(b, SkipNums(b, at + 1))
    [] v.pc = "finE" ->
         IF at >= Len(b) THEN at
         ELSE IF At(b, at) \in {Ch.plus, Ch.minus} THEN
           IF at + 1 >= Len(b) THEN at + 1
           ELSE IF ~isNum(At(b, at + 1)) THEN at + 2
           ELSE SpanEnd(b, SkipNums(b, at + 2))
         ELSE IF ~isNum(At(b, at)) THEN at + 1
         ELSE SpanEnd(b, SkipNums(b, at + 1))
    [] v.pc \in {"finTrue", "finNull"} ->
         IF at + 2 < Len(b) THEN at + 3 ELSE at
    [] v.pc = "finFalse" -> IF at + 3 < Len(b) THEN at + 4 ELSE at

\* The string loop of packAny and compact (compact.go:107-141,
\* fuzz.go:360-395) from index at inside a string.
RECURSIVE StrReadEnd(_, _)
StrReadEnd(b, at) ==
  IF at >= Len(b) THEN at
  ELSE
    LET c == At(b, at) IN
    IF c < Ch.sp \/ c = Ch.quote THEN at + 1
    ELSE IF c # Ch.bslash THEN StrReadEnd(b, at + 1)
    ELSE IF at + 1 = Len(b) THEN at + 1
    ELSE IF isEscChar(At(b, at + 1)) THEN StrReadEnd(b, at + 2)
    ELSE IF At(b, at + 1) # Ch.u THEN at + 2
    ELSE IF ~(Len(b) - (at + 1) > 5) THEN at + 2
    ELSE IF isHex(At(b, at + 2)) /\ isHex(At(b, at + 3))
            /\ isHex(At(b, at + 4)) /\ isHex(At(b, at + 5))
      THEN StrReadEnd(b, at + 6)
    ELSE at + 6

\* packAny with AppendCompactString's loop (compact.go:34-336) and compact
\* with Compact's (fuzz.go:285-591), which read alike, label by label.
ScanReadEnd(b, q) ==
  LET at == q.at IN
  CASE q.pc = "whitespace" ->
         LET j == NextNonCaseSpace(b, at) IN
         IF j = Len(b) THEN j
         ELSE IF At(b, j) \in {Ch.t, Ch.n}
           THEN IF (j + 1) + 3 <= Len(b) THEN j + 4 ELSE j + 1
         ELSE IF At(b, j) = Ch.f
           THEN IF (j + 1) + 4 <= Len(b) THEN j + 5 ELSE j + 1
         ELSE j + 1
    [] q.pc \in {"finStr", "finObjKey"} -> StrReadEnd(b, at)
    [] q.pc \in {"finObj", "finObjSep", "objAnyRet", "beginStr", "finArr",
                 "arrAnyRet", "trailing"} ->
         SpanEnd(b, NextNonCaseSpace(b, at))
    [] q.pc \in {"objAny", "arrAny"} -> at
    [] q.pc = "finNeg" -> SpanEnd(b, at)
    [] q.pc = "fin1" -> SpanEnd(b, SkipNums(b, at))
    [] q.pc = "fin0" ->
         IF at = Len(b) THEN at
         ELSE IF At(b, at) # Ch.dot THEN at + 1
         ELSE IF at + 1 = Len(b) THEN at + 1
         ELSE IF ~isNum(At(b, at + 1)) THEN at + 2
         ELSE SpanEnd(b, SkipNums(b, at + 2))
    [] q.pc = "finE" ->
         IF at = Len(b) THEN at
         ELSE IF At(b, at) \in {Ch.plus, Ch.minus} THEN
           IF at + 1 = Len(b) THEN at + 1
           ELSE IF ~isNum(At(b, at + 1)) THEN at + 2
           ELSE SpanEnd(b, SkipNums(b, at + 2))
         ELSE IF ~isNum(At(b, at)) THEN at + 1
         ELSE SpanEnd(b, SkipNums(b, at + 1))

\* The compactor, compact.go:431-733, method by method; its reads go
\* through done, on, peek2, next, try3 and try4 (chkjson.go:92-131).
KReadEnd(q) ==
  LET b == Src(q)
      at == q.at
  IN
  CASE q.pc \in {"entry", "run", "beginValOrEmpty", "beginStrOrEmpty",
                 "startAndFinStr", "endVal"} ->
         SpanEnd(b, NextNonSpace(b, at))
    [] q.pc = "beginVal" -> at
    [] q.pc = "finStr" ->
         IF at >= Len(b) THEN at
         ELSE IF At(b, at) # Ch.xe2 \/ ~q.jsonp THEN at + 1
         ELSE IF (at + 1) + 2 <= Len(b) THEN at + 3
         ELSE at + 1
    [] q.pc \in {"finStrEsc", "hex4", "hex3", "hex2", "hex1", "finNeg",
                 "fin0"} ->
         SpanEnd(b, at)
    [] q.pc = "fin1" -> SpanEnd(b, SkipNums(b, at))
    [] q.pc = "finDot" ->
         IF at >= Len(b) THEN at
         ELSE IF ~isNum(At(b, at)) THEN at + 1
         ELSE
           LET x == KKeepNums(keep([q EXCEPT !.at = at + 1], <<At(b, at)>>))
           IN SpanEnd(Src(x), x.at)
    [] q.pc = "finE" ->
         IF at >= Len(b) THEN at
         ELSE IF At(b, at) \in {Ch.plus, Ch.minus} THEN
           LET x == keep([q EXCEPT !.at = at + 1], <<At(b, at)>>) IN
           IF x.at >= x.n THEN x.at
           ELSE IF ~isNum(At(Src(x), x.at)) THEN x.at + 1
           ELSE
             LET y == KKeepNums(keep([x EXCEPT !.at = x.at + 1],
                                     <<At(Src(x), x.at)>>))
             IN SpanEnd(Src(y), y.at)
         ELSE IF ~isNum(At(b, at)) THEN at + 1
         ELSE
           LET x == KKeepNums(keep([q EXCEPT !.at = at + 1], <<At(b, at)>>))
           IN SpanEnd(Src(x), x.at)
    [] q.pc \in {"finTrue", "finNull"} ->
         IF at + 3 <= Len(b) THEN at + 3 ELSE at
    [] q.pc = "finFalse" -> IF at + 4 <= Len(b) THEN at + 4 ELSE at

\* C26: in every reachable state of Valid and of the compaction engines
\* the read cursor lies in 0..len(input), no step lowers it, and every
\* byte a block reads from the input has an index below len(input).
C26_CursorInBounds ==
  /\ []( /\ call \in ValidOps =>
             /\ p.at \in 0..Len(Subject)
             /\ ~VDone(p) => VReadEnd(Subject, p) <= Len(Subject)
         /\ call \in PackOps =>
             /\ p.at \in 0..p.n
             /\ ~PDone(p) => ScanReadEnd(Src(p), p) <= p.n
         /\ call = "Compact" =>
             /\ p.at \in 0..p.n
             /\ p.n = Len(p.mem)
             /\ ~PDone(p) => ScanReadEnd(p.mem, p) <= p.n
         /\ call \in CompactorOps =>
             /\ p.at \in 0..p.n
             /\ ~KDone(p) => KReadEnd(p) <= p.n)
  /\ [][(call \in EngineOps) /\ call' = call => p'.at >= p.at]_vars

\* Valid is about to read "rue" as the last three bytes of the input.
C26_Witness ==
  /\ call = "Valid"
  /\ p.pc = "finTrue"
  /\ p.at + 3 = Len(data)
  /\ VReadEnd(data, p) = Len(data)

----------------------------------------------------------------------------
\* What Compact reads and writes.  compact stores at b[w] and moves w on,
\* so w is one more than the highest index written so far.

\* C22 as stated: Compact(b) writes at no index at or above the length
\* of the slice it finally returns, whatever b holds.
C22_WritesBelowReturnedLength ==
  [][call = "Compact" /\ call' = "idle"
       => p.w <= Len(res'["Compact"].out)]_vars

\* C22, amended: Compact(b) reads no index at or above len(b); each step
\* writes b[w..w'-1] and nothing else, with w <= w' <= r <= len(b); when
\* the input is valid the slice returned is b[:w], so that no write went
\* to an index at or above its length; when the input is invalid nil is
\* returned, whatever was written before the fault was met.
C22_WritesBelowCursor ==
  /\ [](call = "Compact" =>
          /\ Len(p.mem) = Len(data)
          /\ p.pc # "panic"
          /\ p.w <= p.at /\ p.at <= Len(data)
          /\ ~PDone(p) => ScanReadEnd(p.mem, p) <= Len(data))
  /\ [][call = "Compact" /\ call' = call
        => /\ p'.w >= p.w
           /\ \A i \in 1..Len(data) :
                p'.mem[i] # p.mem[i] => i > p.w /\ i <= p'.w]_vars
  /\ [][call = "Compact" /\ call' = "idle"
        => IF p.pc = "ok"
             THEN /\ res'["Compact"].ok
                  /\ res'["Compact"].out = SubSeq(p.mem, 1, p.w)
                  /\ res'["Compact"].shared
             ELSE /\ ~res'["Compact"].ok
                  /\ res'["Compact"].absent
                  /\ res'["Compact"].out = <<>>]_vars

\* Compact has moved bytes down over the spaces of a valid document and
\* is about to return a slice shorter than the input.
C22_Witness ==
  /\ call = "Compact"
  /\ p.pc = "ok"
  /\ p.w > 0 /\ p.w < p.n
  /\ SubSeq(p.mem, 1, p.w) # SubSeq(data, 1, p.w)

----------------------------------------------------------------------------
\* Calls running side by side.  Each thread makes one call on a buffer of
\* its own; the buffers are slices of one heap that have no byte in
\* common, and a step of a call reads and writes the heap through the
\* slice the call was given.  Here data, call, pos and res hold one entry
\* per thread: the input, the function called, how far the call has come
\* ("ready", "running", "returned") and what it returned; p holds the
\* heap, the parsers, and gap: the number of bytes left free between one
\* buffer and the next (0: the slices are cut from the heap back to
\* back, and the capacity of one reaches into the next).

NThreads == 2

Threads == 1..NThreads

\* The spare capacity a slice has at most.
ConcSpare == 1

ConcOps ==
  {"Valid", "AppendCompact", "AppendCompactSelf", "Compact",
   "StackAppendCompactSelf"}

\* [ 1 ]   {"a":1,   (space)true   [1 z
ConcDocs ==
  { <<Ch.lbracket, Ch.sp, Ch.one, Ch.sp, Ch.rbracket>>,
    <<Ch.lbrace, Ch.quote, Ch.a, Ch.quote, Ch.colon, Ch.one, Ch.comma>>,
    <<Ch.sp, Ch.t, Ch.r, Ch.u, Ch.e>>,
    <<Ch.lbracket, Ch.one, Ch.sp, Ch.z>> }

\* p := parser{in: b} and p := compactor{...} are local variables, and so
\* are compact's w, r and rstart: every call has a parser of its own.
ParserOf(t) == t

\* Where the buffer of thread t starts in the heap laid out for the
\* inputs d with g bytes between them.
RECURSIVE ConcBase(_, _, _)
ConcBase(d, g, t) ==
  IF t = 1 THEN 0 ELSE ConcBase(d, g, t - 1) + Len(d[t - 1]) + g

\* The buffers of threads 1..t one after the other, g bytes apart, and
\* the spare capacity of the last.
RECURSIVE ConcBuffers(_, _, _)
ConcBuffers(d, g, t) ==
  IF t = 0 THEN <<>> ELSE ConcBuffers(d, g, t - 1) \o d[t] \o Spare(g)

ConcHeap(d, g) == ConcBuffers(d, g, NThreads) \o Spare(ConcSpare - g)

\* k bytes of the heap from where thread t's buffer starts, and the heap
\* with them set.
Load(h, t, k) ==
  SubSeq(h, ConcBase(data, p.gap, t) + 1, ConcBase(data, p.gap, t) + k)

Store(h, t, mem) ==
  LET base == ConcBase(data, p.gap, t) IN
  [i \in 1..Len(h) |->
     IF i > base /\ i <= base + Len(mem) THEN mem[i - base] ELSE h[i]]

\* The state a call starts in, for the input b.
ConcBegin(op, b) ==
  CASE op = "Valid" -> ValidInit
    [] op = "AppendCompact" ->
         PackInit(Buffers(b, Spare(ConcSpare), FALSE, <<>>))
    [] op = "AppendCompactSelf" ->
         PackInit(Buffers(b, Spare(ConcSpare), TRUE, <<>>))
    [] op = "Compact" -> CompactInit(b)
    [] op = "StackAppendCompactSelf" ->
         CompactorInit(Buffers(b, Spare(ConcSpare), TRUE, <<>>), FALSE, 0)

ConcDone(op, q) ==
  CASE op = "Valid" -> VDone(q)
    [] op \in {"AppendCompact", "AppendCompactSelf", "Compact"} -> PDone(q)
    [] op = "StackAppendCompactSelf" -> KDone(q)

\* One step of a call whose input slice holds b.
ConcStepOf(op, b, q) ==
  CASE op = "Valid" -> ValidStep(b, q)
    [] op \in {"AppendCompact", "AppendCompactSelf"} -> PackStep(q)
    [] op = "Compact" -> CompactStep(q)
    [] op = "StackAppendCompactSelf" -> CompactorStep(q)

\* What a call that ended in state q returns: Valid its boolean, packAny's
\* AppendCompact and Compact the slice or nil, the stack-based
\* AppendCompact p.dst whatever run returned.
ConcResult(op, q) ==
  [pc |-> q.pc,
   out |-> CASE op = "Valid" -> <<>>
             [] op = "StackAppendCompactSelf" -> Dst(q)
             [] OTHER -> IF q.pc = "ok" THEN Dst(q) ELSE <<>>]

\* The call run from q to its end with nothing beside it.
RECURSIVE ConcRun(_, _, _)
ConcRun(op, b, q) ==
  IF ConcDone(op, q) THEN q ELSE ConcRun(op, b, ConcStepOf(op, b, q))

\* The state the call ends in when it is run alone on the input b.
Alone(op, b) == ConcRun(op, b, ConcBegin(op, b))

\* What b's bytes are after the call run alone.
AloneBuffer(op, b) ==
  IF op = "Valid" THEN b ELSE SubSeq(Alone(op, b).mem, 1, Len(b))

\* The parser of thread t with the memory its slice stands for.
ConcView(t) ==
  LET q == p.eng[ParserOf(t)] IN
  IF call[t] = "Valid" THEN q
  ELSE [q EXCEPT !.mem = Load(p.heap, t, Len(q.mem))]

ConcInit ==
  /\ data \in [Threads -> ConcDocs]
  /\ call \in [Threads -> ConcOps]
  /\ pos = [t \in Threads |-> "ready"]
  /\ res = [t \in Threads |-> Idle]
  /\ \E g \in {0, ConcSpare} :
       p = [heap |-> ConcHeap(data, g), gap |-> g,
            eng |-> [t \in Threads |-> Idle]]

\* The call's first lines: its parser is made.
ConcCall(t) ==
  /\ pos[t] = "ready"
  /\ p' = [p EXCEPT !.eng[ParserOf(t)] = ConcBegin(call[t], data[t])]
  /\ pos' = [pos EXCEPT ![t] = "running"]
  /\ UNCHANGED <<data, call, res>>

\* One block of the call: what it stores through its slice goes to the
\* heap.
ConcStep(t) ==
  /\ pos[t] = "running"
  /\ ~ConcDone(call[t], p.eng[ParserOf(t)])
  /\ LET q == ConcStepOf(call[t], Load(p.heap, t, Len(data[t])), ConcView(t))
     IN p' = [p EXCEPT
                !.heap = IF call[t] = "Valid" THEN @ ELSE Store(@, t, q.mem),
                !.eng[ParserOf(t)] = q]
  /\ UNCHANGED <<data, call, pos, res>>

ConcReturn(t) ==
  /\ pos[t] = "running"
  /\ ConcDone(call[t], p.eng[ParserOf(t)])
  /\ res' = [res EXCEPT ![t] = ConcResult(call[t], ConcView(t))]
  /\ pos' = [pos EXCEPT ![t] = "returned"]
  /\ UNCHANGED <<data, call, p>>

ConcNext == \E t \in Threads : ConcCall(t) \/ ConcStep(t) \/ ConcReturn(t)

ConcSpec == ConcInit /\ [][ConcNext]_vars

\* C21: however the steps of two calls on buffers with no byte in common
\* are interleaved, each call returns what it returns when run alone, and
\* its buffer holds, from then on, what it holds after the call run
\* alone; a buffer whose call has not begun holds its input.
C21_CallsIndependent ==
  \A t \in Threads :
    /\ pos[t] = "returned" =>
         /\ res[t] = ConcResult(call[t], Alone(call[t], data[t]))
         /\ Load(p.heap, t, Len(data[t])) = AloneBuffer(call[t], data[t])
    /\ pos[t] = "ready" => Load(p.heap, t, Len(data[t])) = data[t]

---------------------------------------------------------------------------
\* The validator on one token at a time: as TestMost does with its
\* tables (chkjson_test.go:15-110), Valid is called on a candidate token
\* in each place a value can stand, followed by each kind of byte.

\* Where a value can stand: alone, as an array's element, as an object
\* member's value.
Places == {"top", "array", "object"}

\* A string can stand as an object member's key as well.
StrPlaces == Places \cup {"key"}

Before(place) ==
  CASE place = "top" -> <<>>
    [] place = "array" -> <<Ch.lbracket>>
    [] place = "object" -> <<Ch.lbrace, Ch.quote, Ch.l, Ch.u, Ch.quote, Ch.colon>>
    [] place = "key" -> <<Ch.lbrace>>

\* The byte that closes the place, and the delimiters a token in it may
\* be followed by.
Closer(place) == IF place = "array" THEN Ch.rbracket ELSE Ch.rbrace

Delimiters(place) ==
  CASE place = "top" -> {}
    [] place = "key" -> {Ch.colon}
    [] OTHER -> {Ch.comma, Closer(place)}

\* What follows the token: nothing, or one byte.
Followers ==
  {<<>>} \cup {<<c>> : c \in {Ch.sp, Ch.tab, Ch.comma, Ch.rbracket,
                               Ch.rbrace, Ch.z, Ch.quote}}

\* The rest of the document behind the follower f: after a comma one more
\* member, after the closer nothing, else the closer; behind a key its
\* value.
After(place, f) ==
  CASE place = "top" -> <<>>
    [] place = "key" ->
         (IF f = <<Ch.colon>> THEN <<>> ELSE <<Ch.colon>>)
           \o <<Ch.zero, Ch.rbrace>>
    [] OTHER ->
         IF f = <<Ch.comma>> THEN
           (IF place = "array" THEN <<Ch.zero>>
            ELSE <<Ch.quote, Ch.b, Ch.quote, Ch.colon, Ch.zero>>)
             \o <<Closer(place)>>
         ELSE IF f = <<Closer(place)>> THEN <<>>
         ELSE <<Closer(place)>>

Placed(place, tok, f) == Before(place) \o tok \o f \o After(place, f)

\* The place a document of that form has its token in, and the token's
\* 0-based first index.
PlaceOf(b) ==
  IF b # <<>> /\ b[1] = Ch.lbracket THEN "array"
  ELSE IF Len(b) >= 6 /\ SubSeq(b, 1, 6) = Before("object") THEN "object"
  ELSE IF b # <<>> /\ b[1] = Ch.lbrace THEN "key"
  ELSE "top"

TokenStart(b) == Len(Before(PlaceOf(b)))

\* The index after the longest run of bytes of the set from index i on.
RECURSIVE RunEnd(_, _, _)
RunEnd(b, i, set) ==
  IF i < Len(b) /\ b[i + 1] \in set THEN RunEnd(b, i + 1, set) ELSE i

---------------------------------------------------------------------------
\* The token harness: Valid alone is called (chkjson_test.go:120) on the
\* inputs of one family.

GrammarNext == CallValid \/ StepValid \/ ReturnValid

---------------------------------------------------------------------------
\* Number tokens.

\* The bytes a number is made of.
NumBytes == (48..57) \cup {Ch.minus, Ch.plus, Ch.dot, Ch.e, Ch.E}

\* Every sequence of one to MaxNum of a sign, a dot, an exponent letter
\* and the digits 0 and 1 is a candidate (NumTokens(MaxNum)).
MaxNum == 4

\* The numbers of chkjson_test.go:39-63, and 1.0e5.
NumSeeds ==
  { <<48, 101, 49>>,   \* 0e1
    <<49, 46, 48, 101, 53>>,   \* 1.0e5
    <<48, 101, 43, 48>>,   \* 0e+0
    <<45, 48, 101, 43, 48>>,   \* -0e+0
    <<49, 101, 43, 54>>,   \* 1e+6
    <<45, 49, 48, 51, 101, 43, 49>>,   \* -103e+1
    <<45, 48, 46, 48, 49, 101, 43, 48, 48, 54>>,   \* -0.01e+006
    <<48, 51, 101, 43, 49>>,   \* 03e+1
    <<49, 101, 46, 49>>,   \* 1e.1
    <<49, 46, 101, 51>>,   \* 1.e3
    <<48, 49, 101, 43, 54>>,   \* 01e+6
    <<45, 48, 46, 48, 49, 101, 43, 48, 46, 54>>,   \* -0.01e+0.6
    <<57, 56, 50, 46, 53, 55, 69, 45, 57>> }   \* 982.57E-9

NumTokens(n) ==
  UNION {[1..k -> {Ch.minus, Ch.plus, Ch.dot, Ch.zero, Ch.one, Ch.e, Ch.E}] :
           k \in 1..n}
    \cup NumSeeds

NumInputs(n) ==
  {Placed(place, tok, f) :
     place \in Places, tok \in NumTokens(n), f \in Followers}

\* -?(0|[1-9][0-9]*)(\.[0-9]+)?([eE][+-]?[0-9]+)? matches all of s: s
\* splits into a sign of length a, an integer part up to i, a fraction up
\* to j and an exponent up to the end.
RefNumberToken(s) ==
  LET n == Len(s)
      Digits(lo, hi) == lo <= hi /\ \A k \in lo..hi : s[k] \in 48..57
  IN
  \E a \in 0..1, i \in 1..n, j \in 1..n :
    /\ a < i /\ i <= j
    /\ a = 1 => s[1] = 45
    /\ \/ i = a + 1 /\ s[i] = 48
       \/ s[a + 1] \in 49..57 /\ Digits(a + 1, i)
    /\ \/ j = i
       \/ s[i + 1] = 46 /\ Digits(i + 2, j)
    /\ \/ n = j
       \/ /\ s[j + 1] \in {101, 69}
          /\ \/ Digits(j + 2, n)
             \/ j + 2 <= n /\ s[j + 2] \in {43, 45} /\ Digits(j + 3, n)

\* The candidate token of a document of NumInputs and the index after it.
NumEnd(b) == RunEnd(b, TokenStart(b), NumBytes)

NumToken(b) == SubSeq(b, TokenStart(b) + 1, NumEnd(b))

\* Valid on the documents that hold one candidate number.
NumInit ==
  /\ data \in NumInputs(MaxNum)
  /\ call = "idle"
  /\ p = Idle
  /\ res = [o \in OpSet |-> NoResult]
  /\ pos = 0

NumSpec == NumInit /\ [][GrammarNext]_vars

\* C31: a number token is accepted iff it matches
\* -?(0|[1-9][0-9]*)(\.[0-9]+)?([eE][+-]?[0-9]+)? (0, -0, 0e1, 1.0e5,
\* -0.01e+006 are valid; 01, 00, -, 1., 1.e3, 1e, 1e+, 1e.1, -0.01e+0.6
\* are not), and a number followed directly by a byte that is neither
\* whitespace nor a delimiter its place allows (, ] }) makes the input
\* invalid: on a document holding one candidate token in a place a value
\* can stand, well-formed behind the token's follower, Valid returns true
\* exactly when the token matches and is followed by the end of the input,
\* by whitespace or by a delimiter of its place.
C31_NumberTokens ==
  Returned("Valid") =>
    (res["Valid"].ok <=>
       /\ RefNumberToken(NumToken(data))
       /\ \/ NumEnd(data) = Len(data)
          \/ data[NumEnd(data) + 1] \in RefWsSet \cup Delimiters(PlaceOf(data)))

\* [-0.01e+006,0] has been accepted.
C31_Witness ==
  /\ Returned("Valid")
  /\ res["Valid"].ok
  /\ data = Placed("array", <<45, 48, 46, 48, 49, 101, 43, 48, 48, 54>>,
                   <<Ch.comma>>)

---------------------------------------------------------------------------
\* String tokens.

\* The bytes a string's contents are drawn from: control bytes, a space,
\* the quote, the backslash and bytes that may follow it, a hex digit, a
\* letter that is neither, 0x7f, and bytes from 0x80 on that are no
\* well-formed UTF-8 on their own.
StrBytes ==
  {0, Ch.tab, Ch.us, Ch.sp, Ch.quote, Ch.bslash, Ch.slash, Ch.n, Ch.u, Ch.a,
   Ch.z, Ch.del, Ch.x80, 255}

\* Every sequence of up to MaxStr of them is a string's contents.
MaxStr == 3

\* What may stand where \u expects a hex digit: the digits and letters at
\* the ends of the three ranges, and their neighbours.
HexTry == {47, 48, 57, 58, 64, 65, 70, 71, 96, 97, 102, 103, Ch.quote}

StrBodies(n) ==
  UNION {[1..k -> StrBytes] : k \in 0..n}
    \cup {<<c>> : c \in 0..255}
    \cup {<<Ch.bslash, c>> : c \in 0..255}
    \cup {<<Ch.bslash, Ch.u>> \o h :
            h \in UNION {[1..k -> {Ch.a, Ch.z, Ch.quote}] : k \in 0..4}}
    \cup {<<Ch.bslash, Ch.u>> \o [k \in 1..4 |-> IF k = i THEN c ELSE Ch.F] :
            i \in 1..4, c \in HexTry}
    \cup {<<Ch.bslash, Ch.u, Ch.zero, Ch.nine, Ch.a, Ch.f, Ch.bslash, Ch.u,
            Ch.A, Ch.F, Ch.one, Ch.two>>,   \* \u09af\uAF12
          <<Ch.bslash, Ch.bslash, Ch.u, Ch.z>>,   \* \\uz
          <<Ch.xe2, Ch.x80, Ch.xa8, 237, 160, 128, 192, 175>>}

\* The opening quote, the contents, and the closing quote or none.
StrTokens(n) ==
  {<<Ch.quote>> \o body \o close :
     body \in StrBodies(n), close \in {<<>>, <<Ch.quote>>}}

StrInputs(n) ==
  {Placed(place, tok, <<>>) : place \in StrPlaces, tok \in StrTokens(n)}

\* The number of backslashes that stand right before index k of b, from
\* index lo on (indices from 1).
RECURSIVE RefBackslashes(_, _, _)
RefBackslashes(b, lo, k) ==
  IF k > lo /\ b[k - 1] = 92 THEN 1 + RefBackslashes(b, lo, k - 1) ELSE 0

\* The byte at k is not the second byte of an escape.
RefUnescaped(b, lo, k) == RefBackslashes(b, lo, k) % 2 = 0

\* The index (from 1) of the quote that closes the string whose opening
\* quote is b[start + 1], or 0: the first quote no backslash escapes.
RefStringEnd(b, start) ==
  LET Q == {k \in (start + 2)..Len(b) :
              b[k] = 34 /\ RefUnescaped(b, start + 2, k)}
  IN IF Q = {} THEN 0 ELSE CHOOSE k \in Q : \A m \in Q : k <= m

\* The string is closed, holds no byte below 0x20, and each backslash in
\* it that is no escape's second byte is followed by one of
\* b f n r t \ / " or by u and four hex digits.
RefStringOK(b, start) ==
  LET c == RefStringEnd(b, start) IN
  /\ start < Len(b)
  /\ b[start + 1] = 34
  /\ c > 0
  /\ \A k \in (start + 2)..(c - 1) :
       /\ b[k] >= 32
       /\ b[k] = 92 /\ RefUnescaped(b, start + 2, k) =>
            \/ b[k + 1] \in RefEscSet
            \/ /\ b[k + 1] = 117
               /\ k + 5 < c
               /\ \A h \in 2..5 : b[k + h] \in RefHexSet

\* What stands behind the string, spaces dropped, is what its place needs.
RefStringPlaced(b, start) ==
  LET c == RefStringEnd(b, start) IN
  SubSeq(b, RefWs(b, c) + 1, Len(b)) = After(PlaceOf(b), <<>>)

\* Valid on the documents that hold one candidate string.
StrInit ==
  /\ data \in StrInputs(MaxStr)
  /\ call = "idle"
  /\ p = Idle
  /\ res = [o \in OpSet |-> NoResult]
  /\ pos = 0

StrSpec == StrInit /\ [][GrammarNext]_vars

\* C32: inside a string literal Valid rejects exactly a byte below 0x20, a
\* backslash not followed by one of b f n r t \ / " or by u and four hex
\* digits, and a string not closed before the end of the input; every
\* other byte is accepted without inspection, 0x7f and bytes >= 0x80 that
\* are no well-formed UTF-8 included.  On a document holding one string
\* token in a place a string can stand, Valid returns true exactly when
\* the token passes those three tests and the place's rest follows it.
C32_StringContents ==
  Returned("Valid") =>
    (res["Valid"].ok <=>
       /\ RefStringOK(data, TokenStart(data))
       /\ RefStringPlaced(data, TokenStart(data)))

\* A string of 0x7f, 0x80 and 0xff has been accepted as an object's key.
C32_Witness ==
  /\ Returned("Valid")
  /\ res["Valid"].ok
  /\ data = Placed("key", <<Ch.quote, Ch.del, Ch.x80, 255, Ch.quote>>, <<>>)

---------------------------------------------------------------------------
\* Objects and arrays.

\* The pieces a document's structure is made of: the brackets, the comma,
\* the colon, the string "a" and the number 0.
Pieces ==
  {<<Ch.lbrace>>, <<Ch.rbrace>>, <<Ch.lbracket>>, <<Ch.rbracket>>,
   <<Ch.comma>>, <<Ch.colon>>, <<Ch.quote, Ch.a, Ch.quote>>, <<Ch.zero>>}

\* Every sequence of up to MaxPieces pieces is an input; of up to
\* MaxSpaced pieces, also with a space before each piece and at the end.
MaxPieces == 5

MaxSpaced == 3

RECURSIVE Joined(_, _)
Joined(w, gap) ==
  IF w = <<>> THEN gap ELSE gap \o Head(w) \o Joined(Tail(w), gap)

\* The documents the structure rules name, and {"a":0, followed by up to
\* MaxSpaced pieces.
StructInvalid ==
  { <<91, 49, 44, 93>>,   \* [1,]
    <<91, 49, 44>>,   \* [1,
    <<123, 34, 97, 34, 58, 32, 125>>,   \* {"a": }
    <<123, 34, 102, 111, 111, 34, 44, 102, 125>>,   \* {"foo",f}
    <<123, 34, 97, 34, 58, 49, 44, 125>>,   \* {"a":1,}
    <<91, 125>>,   \* [}
    <<123, 93>>,   \* {]
    <<123, 125, 125>>,   \* {}}
    <<91, 93, 93>> }   \* []]

StructValid ==
  { <<123, 125>>,   \* {}
    <<91, 93>>,   \* []
    <<91, 32, 93>> }   \* [ ]

StructInputs(n, m) ==
  {Joined(w, <<>>) : w \in UNION {[1..k -> Pieces] : k \in 0..n}}
    \cup {Joined(w, <<Ch.sp>>) :
            w \in UNION {[1..k -> Pieces] : k \in 0..m}}
    \cup {<<Ch.lbrace, Ch.quote, Ch.a, Ch.quote, Ch.colon, Ch.zero>>
            \o Joined(w, <<>>) :
            w \in UNION {[1..k -> Pieces] : k \in 0..m}}

\* b holds nothing but bytes of the pieces, and spaces.
MadeOfPieces(b) ==
  \A i \in 1..Len(b) :
    b[i] \in {Ch.sp} \cup UNION {{w[k] : k \in 1..Len(w)} : w \in Pieces}

\* The pieces of such a document in order, each named by its first byte,
\* spaces left out.
RECURSIVE RefPieces(_, _)
RefPieces(b, i) ==
  IF i > Len(b) THEN <<>>
  ELSE IF b[i] = 32 THEN RefPieces(b, i + 1)
  ELSE <<b[i]>> \o RefPieces(b, IF b[i] = 34 THEN i + 3 ELSE i + 1)

\* The containers open after the first i pieces of w, innermost last, each
\* named by its opening bracket; a closer with no container open, or with
\* another kind of container innermost, leaves <<0>> for good.
RECURSIVE RefOpenAfter(_, _)
RefOpenAfter(w, i) ==
  IF i = 0 THEN <<>>
  ELSE
    LET s == RefOpenAfter(w, i - 1)
        t == w[i]
    IN
    IF s = <<0>> THEN s
    ELSE IF t \in {123, 91} THEN Append(s, t)
    ELSE IF t \in {125, 93} THEN
      IF s # <<>> /\ s[Len(s)] = t - 2 THEN SubSeq(s, 1, Len(s) - 1) ELSE <<0>>
    ELSE s

RefValueStart == {123, 91, 34, 48}

RefValueEnd == {125, 93, 34, 48}

\* Piece i of w is a string standing where an object has its keys.
RefIsKey(w, i) ==
  /\ i > 1
  /\ w[i] = 34
  /\ w[i - 1] \in {123, 44}
  /\ RefOpenAfter(w, i - 1) # <<>>
  /\ RefOpenAfter(w, i - 1)[Len(RefOpenAfter(w, i - 1))] = 123

\* The rules of objects and arrays, piece by piece: the first piece
\* begins the one value; in an array a value or ] follows [, a value
\* follows a comma, and a comma or ] follows a value; in an object a key
\* or } follows {, a key follows a comma, a colon follows a key, a value
\* follows a colon, and a comma or } follows a member's value; every
\* closer matches the innermost open container and none stays open.
RefStructure(w) ==
  /\ w # <<>>
  /\ RefOpenAfter(w, Len(w)) = <<>>
  /\ \A i \in 1..Len(w) :
       LET s == RefOpenAfter(w, i - 1)
           t == w[i]
       IN
       IF i = 1 THEN t \in RefValueStart
       ELSE IF s = <<>> \/ s = <<0>> THEN FALSE
       ELSE IF s[Len(s)] = 91 THEN
         \/ w[i - 1] = 91 /\ t \in RefValueStart \cup {93}
         \/ w[i - 1] = 44 /\ t \in RefValueStart
         \/ w[i - 1] \in RefValueEnd /\ t \in {44, 93}
       ELSE
         \/ w[i - 1] = 123 /\ t \in {34, 125}
         \/ w[i - 1] = 44 /\ t = 34
         \/ RefIsKey(w, i - 1) /\ t = 58
         \/ w[i - 1] = 58 /\ t \in RefValueStart
         \/ w[i - 1] \in RefValueEnd /\ ~RefIsKey(w, i - 1) /\ t \in {44, 125}

\* Valid on the documents made of pieces, and on the documents named.
StructInit ==
  /\ data \in StructInputs(MaxPieces, MaxSpaced)
               \cup StructInvalid \cup StructValid
  /\ call = "idle"
  /\ p = Idle
  /\ res = [o \in OpSet |-> NoResult]
  /\ pos = 0

StructSpec == StructInit /\ [][GrammarNext]_vars

\* C33: in objects every key must be a string followed by : and a value,
\* and in objects and arrays every comma must be followed by another
\* member: [1,] [1, {"a": } {"foo",f} {"a":1,} and a closer that does not
\* match the innermost open container ([} {] {}} []]) are invalid, while
\* {} [] [ ] are valid.  Valid returns false on each document named
\* invalid and true on each named valid, and on a document made of
\* brackets, commas, colons, strings and numbers it returns true exactly
\* when the pieces obey the rules of objects and arrays.
C33_ObjectsAndArrays ==
  Returned("Valid") =>
    /\ data \in StructInvalid => ~res["Valid"].ok
    /\ data \in StructValid => res["Valid"].ok
    /\ MadeOfPieces(data) =>
         (res["Valid"].ok <=> RefStructure(RefPieces(data, 1)))

\* {"a":0,} has been refused.
C33_Witness ==
  /\ Returned("Valid")
  /\ ~res["Valid"].ok
  /\ data = <<123, 34, 97, 34, 58, 48, 44, 125>>

---------------------------------------------------------------------------
\* Whitespace around and inside the one value.

\* Bytes tried where whitespace may stand: space, tab, CR and LF, and
\* bytes that are whitespace elsewhere (NUL, VT, FF, NBSP's second byte).
WsTry == {Ch.sp, Ch.tab, Ch.cr, Ch.lf, 0, 11, 12, 160}

\* Up to MaxWs of them stand before and behind the value.
MaxWs == 2

WsPads(k) == UNION {[1..j -> WsTry] : j \in 0..k}

\* The values, one of each kind.
WsValues ==
  { <<Ch.one>>, <<Ch.t, Ch.r, Ch.u, Ch.e>>, <<Ch.lbrace, Ch.rbrace>>,
    <<Ch.lbracket, Ch.rbracket>>, <<Ch.quote, Ch.n, Ch.quote>> }

\* What the tests put behind the value (chkjson_test.go:18-23, 99).
WsTrailers ==
  { <<Ch.one>>, <<Ch.lbrace, Ch.rbrace>>, <<Ch.f>>,
    <<Ch.quote, Ch.n, Ch.quote>> }

\* A value or none with bytes around it; two values with one or two bytes
\* between them.
WsAround(n) ==
  {a \o v \o b : a \in WsPads(n), b \in WsPads(n),
                 v \in WsValues \cup {<<>>}}
    \cup {a \o v \o b \o t : a \in WsPads(1), b \in WsPads(n) \ {<<>>},
                             v \in WsValues, t \in WsTrailers}

\* [0,0] and {"a":0} with at most n bytes in each gap.
WsInside(n) ==
  {<<Ch.lbracket>> \o g[1] \o <<Ch.zero>> \o g[2] \o <<Ch.comma>> \o g[3]
     \o <<Ch.zero>> \o g[4] \o <<Ch.rbracket>> : g \in [1..4 -> WsPads(n)]}
    \cup
  {<<Ch.lbrace>> \o g[1] \o <<Ch.quote, Ch.a, Ch.quote>> \o g[2]
     \o <<Ch.colon>> \o g[3] \o <<Ch.zero>> \o g[4] \o <<Ch.rbrace>> :
     g \in [1..4 -> WsPads(n)]}

\* b is [0,0] or {"a":0} with bytes of WsTry put in.
WsIsInside(b) ==
  SelectSeq(b, LAMBDA c : c \notin WsTry)
    \in {<<Ch.lbracket, Ch.zero, Ch.comma, Ch.zero, Ch.rbracket>>,
         <<Ch.lbrace, Ch.quote, Ch.a, Ch.quote, Ch.colon, Ch.zero, Ch.rbrace>>}

\* b without the spaces, tabs, CRs and LFs at its two ends.
RefTrim(b) ==
  LET lo == RefWs(b, 0)
      E == {k \in lo..Len(b) : \A m \in (k + 1)..Len(b) : b[m] \in RefWsSet}
      hi == CHOOSE k \in E : \A m \in E : k <= m
  IN SubSeq(b, lo + 1, hi)

\* Valid on values with bytes around, between and inside them.
WsInit ==
  /\ \/ data \in WsAround(MaxWs)
     \/ data \in WsInside(1)
  /\ call = "idle"
  /\ p = Idle
  /\ res = [o \in OpSet |-> NoResult]
  /\ pos = 0

WsSpec == WsInit /\ [][GrammarNext]_vars

\* C34: the whole input must be exactly one value with only space, tab,
\* CR or LF around it: empty and whitespace-only inputs are invalid, a
\* non-whitespace byte after the top-level value makes the input invalid
\* ( 1  1,  1  {}, true f), <space>true<space> is valid, and no other
\* byte (0x0b, 0x0c, 0xa0) counts as whitespace anywhere.  With bytes
\* around one value, or around and between two, Valid returns true exactly
\* when what is left after trimming space, tab, CR and LF is the one
\* value; with a byte in the gaps of [0,0] and {"a":0}, exactly when every
\* such byte is one of the four.
C34_OneValueInWhitespace ==
  Returned("Valid") =>
    /\ ~WsIsInside(data) =>
         (res["Valid"].ok <=> RefTrim(data) \in WsValues)
    /\ WsIsInside(data) =>
         (res["Valid"].ok <=>
            \A k \in 1..Len(data) : data[k] \in WsTry => data[k] \in RefWsSet)

\* Tab, LF, true, CR, space has been accepted.
C34_Witness ==
  /\ Returned("Valid")
  /\ res["Valid"].ok
  /\ data = <<Ch.tab, Ch.lf, Ch.t, Ch.r, Ch.u, Ch.e, Ch.cr, Ch.sp>>

---------------------------------------------------------------------------
\* The literals true, false and null.

LitWords ==
  { <<Ch.t, Ch.r, Ch.u, Ch.e>>, <<Ch.f, Ch.a, Ch.l, Ch.s, Ch.e>>,
    <<Ch.n, Ch.u, Ch.l, Ch.l>> }

\* What a byte of a word is replaced by, and what is put behind a word.
LitTry == {Ch.z, Ch.l, Ch.e, Ch.E, Ch.sp}

\* The candidates: each word, cut short after each byte, with one byte
\* replaced, and with one byte more.
LitTokens ==
  LitWords
    \cup {SubSeq(w, 1, k) : w \in LitWords, k \in 1..4}
    \cup {[w EXCEPT ![k] = c] : w \in {x \in LitWords : Len(x) = 4},
                                k \in 2..4, c \in LitTry}
    \cup {[w EXCEPT ![k] = c] : w \in {x \in LitWords : Len(x) = 5},
                                k \in 2..5, c \in LitTry}
    \cup {w \o <<c>> : w \in LitWords, c \in LitTry \ {Ch.sp}}

LitInputs ==
  {Placed(place, tok, f) : place \in Places, tok \in LitTokens, f \in Followers}

\* The calls of the harness on the documents that hold one candidate
\* literal.
LitInit ==
  /\ data \in LitInputs
  /\ call = "idle"
  /\ p = Idle
  /\ res = [o \in OpSet |-> NoResult]
  /\ pos = 0

LitSpec == LitInit /\ [][Next]_vars

\* The letters that stand at the token's place, and the index after them.
LitEnd(b) == RunEnd(b, TokenStart(b), (65..90) \cup (97..122))

LitToken(b) == SubSeq(b, TokenStart(b) + 1, LitEnd(b))

\* C35: a value starting with t, f or n is accepted only if the input
\* holds exactly the bytes true, false or null at that position, followed
\* by whitespace, an allowed delimiter or the end of the input; truncated
\* (tru, fals, nul) and over-long (falsee, nulll) spellings are invalid,
\* also when the end of the input cuts the literal off.  On a document
\* holding one candidate in a place a value can stand, Valid and every
\* compaction call accept exactly when the letters there are one of the
\* three words and what follows them is the end of the input, whitespace
\* or a delimiter of the place.
C35_LiteralsExact ==
  \A op \in OpSet \ {"AppendCompactAgain", "ValidCompacted"} :
    Returned(op) =>
      (res[op].ok <=>
         /\ LitToken(data) \in LitWords
         /\ \/ LitEnd(data) = Len(data)
            \/ data[LitEnd(data) + 1]
                 \in RefWsSet \cup Delimiters(PlaceOf(data)))

\* fals, cut off by the end of the input, has been refused by every call.
C35_Witness ==
  /\ data = <<Ch.f, Ch.a, Ch.l, Ch.s>>
  /\ \A op \in OpSet \ {"AppendCompactAgain", "ValidCompacted"} :
       Returned(op) /\ ~res[op].ok

---------------------------------------------------------------------------
\* The depth of native calls.

\* The longest chain of calls among the functions that never call
\* themselves: the stack-based compactor's, compact.go:360-733.
CompactorChain ==
  <<"AppendCompact", "run", "beginVal", "beginStrOrEmpty", "endVal",
    "startAndFinStr", "finStr", "keep">>

\* The native calls that are active in state q of a call of op, at most:
\* Valid is one function that calls push, replace and pop
\* (chkjson.go:542-864); the stack-based compactor returns to run's loop
\* after every value; AppendCompact calls AppendCompactString, which
\* calls packAny (compact.go:22-29), and Compact calls compact
\* (fuzz.go:279-280), and each of these two calls itself at objAny and
\* arrAny (compact.go:206, 241, fuzz.go:461, 496) with the caller
\* suspended in frames.
NativeDepth(op, q) ==
  CASE op \in ValidOps -> 2
    [] op \in CompactorOps -> Len(CompactorChain)
    [] op \in PackOps -> 3 + (IF PDone(q) THEN 0 ELSE Len(q.frames))
    [] op = "Compact" -> 2 + (IF PDone(q) THEN 0 ELSE Len(q.frames))

\* C36: in validation and in compaction nesting is tracked only by the
\* explicit context stack: the depth of native calls of the engine is
\* bounded by a constant that does not grow with the nesting depth of the
\* input.  No call is ever deeper in native calls than the longest chain
\* of the functions that do not call themselves.
C36_NativeDepthBounded ==
  call \in EngineOps => NativeDepth(call, p) <= Len(CompactorChain)

---------------------------------------------------------------------------
\* Escape's output as a string literal.

\* b between two double quotes.
Quoted(b) == <<Ch.quote>> \o b \o <<Ch.quote>>

\* The call of EscCalls that returned last, if one did and dst was nil.
LastEscape ==
  IF call = "idle" /\ pos >= 1 /\ EscCalls[pos].dsts = {<<>>}
    THEN {EscCalls[pos].op} ELSE {}

\* C37: for every byte sequence src and every option set, the output of
\* Escape placed between two double quotes is accepted by Valid as one
\* JSON string: the output holds no byte below 0x20 and no unescaped
\* double quote, and every backslash in it starts one of the escapes the
\* validator accepts.
C37_EscapeOutputIsString ==
  \A op \in LastEscape :
    LET out == res[op].out
        q == Quoted(out)
    IN
    /\ Alone("Valid", q).pc = "true"
    /\ \A k \in 1..Len(out) : out[k] >= 32
    /\ RefStringEnd(q, 0) = Len(q)
    /\ RefStringOK(q, 0)

\* Escape with both options has returned on TestEscape's second input,
\* which holds a quote, control bytes, 0xff and both separators, and Valid
\* accepts what it returned between quotes.
C37_Witness ==
  /\ data = EscHard
  /\ LastEscape = {"EscapeBoth"}
  /\ Alone("Valid", Quoted(res["EscapeBoth"].out)).pc = "true"

---------------------------------------------------------------------------
\* The function-based validator (chkjson.go:20-454): Valid makes a parser
\* and calls validate, whose loop calls beginVal for every value; each
\* method ends in a call of the next one or returns a boolean.  A state is
\* [pc, at, c, stack] as for the goto-driven Valid: pc is the method about
\* to run, c the byte beginVal was handed.  "return true" leads back to
\* validate's loop, "return false" ends the call; finStr is followed by
\* endVal wherever it is called (beganStrFin, beginStrOrEmpty, and
\* startAndFinStr inside endVal's loop).

\* p := parser{in: b}
ParserInit == [pc |-> "Valid", at |-> 0, c |-> 0, stack |-> EmptyStack]

\* try leaving the last byte of the word unread.
tryAllButLast(b, at, word) ==
  LET n == Len(word)
      Miss == {k \in 1..(n - 1) : At(b, at + k - 1) # word[k]}
  IN
  IF at + n > Len(b) THEN [ok |-> FALSE, at |-> at]
  ELSE IF Miss = {} THEN [ok |-> TRUE, at |-> at + n]
  ELSE [ok |-> FALSE, at |-> at + (CHOOSE k \in Miss : \A m \in Miss : k <= m)]

\* try3 and try4: the length test, then p.c() == c1 && ..., which reads on
\* up to the first byte that differs.
try(b, at, word) ==
  LET n == Len(word)
      Miss == {k \in 1..n : At(b, at + k - 1) # word[k]}
  IN
  IF at + n > Len(b) THEN [ok |-> FALSE, at |-> at]
  ELSE IF Miss = {} THEN [ok |-> TRUE, at |-> at + n]
  ELSE [ok |-> FALSE, at |-> at + (CHOOSE k \in Miss : \A m \in Miss : k <= m)]

\* One method body of the parser.
ParserStep(b, v) ==
  LET j == NextNonSpace(b, v.at)
      Fail(w) == [w EXCEPT !.pc = "false"]
      Try(word) ==
        LET r == try(b, v.at, word) IN
        [v EXCEPT !.at = r.at, !.pc = IF r.ok THEN "endVal" ELSE "false"]
  IN
  CASE v.pc = "Valid" ->
         \* lines 21-27: peekAfterSpace, then validate
         IF j < Len(b) THEN [v EXCEPT !.at = j, !.pc = "validate"]
         ELSE Fail([v EXCEPT !.at = j])
    [] v.pc = "validate" ->
         \* lines 180-190: afterSpace; at the end the stack decides
         IF j < Len(b)
           THEN [v EXCEPT !.at = j + 1, !.c = At(b, j), !.pc = "beginVal"]
           ELSE [v EXCEPT !.at = j,
                          !.pc = IF empty(v.stack) THEN "true" ELSE "false"]
    [] v.pc = "beginVal" ->
         \* lines 192-222
         (CASE v.c = Ch.lbrace ->
                [v EXCEPT !.stack = push(v.stack, parseObjKey),
                          !.pc = "beginStrOrEmpty"]
           [] v.c = Ch.lbracket ->
                [v EXCEPT !.stack = push(v.stack, parseArrVal),
                          !.pc = "beginValOrEmpty"]
           [] v.c = Ch.quote -> VGoto(v, "finStr")
           [] v.c = Ch.minus -> VGoto(v, "finNeg")
           [] v.c = Ch.zero -> VGoto(v, "fin0")
           [] v.c = Ch.t -> VGoto(v, "finTrue")
           [] v.c = Ch.f -> VGoto(v, "finFalse")
           [] v.c = Ch.n -> VGoto(v, "finNull")
           [] OTHER -> IF isNat(v.c) THEN VGoto(v, "fin1") ELSE Fail(v))
    [] v.pc = "beginValOrEmpty" ->
         \* lines 224-233: peekAfterSpace; ] is left to endVal
         IF j >= Len(b) THEN Fail([v EXCEPT !.at = j])
         ELSE [v EXCEPT !.at = j,
                        !.pc = IF At(b, j) = Ch.rbracket THEN "endVal"
                               ELSE "validate"]
    [] v.pc = "beginStrOrEmpty" ->
         \* lines 235-246: } is left to endVal under parseObjVal
         IF j >= Len(b) THEN Fail([v EXCEPT !.at = j])
         ELSE IF At(b, j) = Ch.rbrace
           THEN [v EXCEPT !.at = j, !.stack = replace(v.stack, parseObjVal),
                          !.pc = "endVal"]
         ELSE [v EXCEPT !.at = j + 1,
                        !.pc = IF At(b, j) = Ch.quote THEN "finStr" ELSE "false"]
    [] v.pc = "finStr" ->
         \* lines 253-290: one byte of the string, or one escape
         IF v.at >= Len(b) THEN Fail(v)
         ELSE
           LET c == At(b, v.at)
               w == [v EXCEPT !.at = v.at + 1]
           IN
           IF c = Ch.quote THEN VGoto(w, "endVal")
           ELSE IF c = Ch.bslash THEN
             IF w.at >= Len(b) THEN Fail(w)
             ELSE
               LET e == At(b, w.at)
                   x == [w EXCEPT !.at = w.at + 1]
                   Bad == {i \in 0..3 :
                             x.at + i >= Len(b) \/ ~isHex(At(b, x.at + i))}
                   i0 == CHOOSE i \in Bad : \A m \in Bad : i <= m
               IN
               IF isEscChar(e) THEN x
               ELSE IF e # Ch.u THEN Fail(x)
               ELSE IF Bad = {} THEN [x EXCEPT !.at = x.at + 4]
               ELSE Fail([x EXCEPT !.at = IF x.at + i0 >= Len(b) THEN Len(b)
                                          ELSE x.at + i0 + 1])
           ELSE IF c < Ch.sp THEN Fail(w)
           ELSE w
    [] v.pc = "finNeg" ->
         \* lines 308-319
         IF v.at >= Len(b) THEN Fail(v)
         ELSE
           LET c == At(b, v.at)
               w == [v EXCEPT !.at = v.at + 1]
           IN
           IF c = Ch.zero THEN VGoto(w, "fin0")
           ELSE IF isNat(c) THEN VGoto(w, "fin1")
           ELSE Fail(w)
    [] v.pc = "fin1" ->
         \* lines 321-329
         LET k == SkipNums(b, v.at) IN
         [v EXCEPT !.at = k, !.pc = IF k < Len(b) THEN "fin0" ELSE "endVal"]
    [] v.pc = "fin0" ->
         \* lines 331-345
         IF v.at >= Len(b) THEN VGoto(v, "endVal")
         ELSE IF At(b, v.at) = Ch.dot
           THEN [v EXCEPT !.at = v.at + 1, !.pc = "finDot"]
         ELSE IF isE(At(b, v.at))
           THEN [v EXCEPT !.at = v.at + 1, !.pc = "finE"]
         ELSE VGoto(v, "endVal")
    [] v.pc = "finDot" ->
         \* lines 347-361
         IF v.at >= Len(b) THEN Fail(v)
         ELSE IF ~isNum(At(b, v.at)) THEN Fail([v EXCEPT !.at = v.at + 1])
         ELSE
           LET k == SkipNums(b, v.at + 1) IN
           IF k < Len(b) /\ isE(At(b, k))
             THEN [v EXCEPT !.at = k + 1, !.pc = "finE"]
             ELSE [v EXCEPT !.at = k, !.pc = "endVal"]
    [] v.pc = "finE" ->
         \* lines 363-380
         IF v.at >= Len(b) THEN Fail(v)
         ELSE
           LET c == At(b, v.at)
               w == [v EXCEPT !.at = v.at + 1]
           IN
           IF c = Ch.plus \/ c = Ch.minus THEN
             IF w.at >= Len(b) THEN Fail(w)
             ELSE IF ~isNum(At(b, w.at)) THEN Fail([w EXCEPT !.at = w.at + 1])
             ELSE [w EXCEPT !.at = SkipNums(b, w.at + 1), !.pc = "endVal"]
           ELSE IF ~isNum(c) THEN Fail(w)
           ELSE [w EXCEPT !.at = SkipNums(b, w.at), !.pc = "endVal"]
    [] v.pc = "finTrue" -> Try(<<Ch.r, Ch.u, Ch.e>>)
    [] v.pc = "finNull" -> Try(<<Ch.u, Ch.l, Ch.l>>)
    [] v.pc = "finFalse" -> Try(<<Ch.a, Ch.l, Ch.s, Ch.e>>)
    [] v.pc = "endVal" ->
         \* lines 396-433, with remSpace (435-438)
         IF empty(v.stack) THEN
           IF j >= Len(b) THEN [v EXCEPT !.at = j, !.pc = "validate"]
           ELSE Fail([v EXCEPT !.at = j + 1])
         ELSE IF j >= Len(b) THEN Fail([v EXCEPT !.at = j])
         ELSE
           LET c == At(b, j)
               s == top(v.stack)
               w == [v EXCEPT !.at = j + 1, !.stack = pop(v.stack)]
           IN
           (CASE s = parseObjKey ->
                  IF c = Ch.colon
                    THEN [w EXCEPT !.stack = push(w.stack, parseObjVal),
                                   !.pc = "validate"]
                    ELSE Fail(w)
             [] s = parseObjVal ->
                  IF c = Ch.comma
                    THEN [w EXCEPT !.stack = push(w.stack, parseObjKey),
                                   !.pc = "startAndFinStr"]
                  ELSE IF c = Ch.rbrace THEN w
                  ELSE Fail(w)
             [] s = parseArrVal ->
                  IF c = Ch.comma
                    THEN [w EXCEPT !.stack = push(w.stack, parseArrVal),
                                   !.pc = "validate"]
                  ELSE IF c = Ch.rbracket THEN w
                  ELSE Fail(w))
    [] v.pc = "startAndFinStr" ->
         \* lines 442-445
         IF j >= Len(b) THEN Fail([v EXCEPT !.at = j])
         ELSE [v EXCEPT !.at = j + 1,
                        !.pc = IF At(b, j) = Ch.quote THEN "finStr" ELSE "false"]

---------------------------------------------------------------------------
\* The two validators side by side: the goto-driven Valid, then the
\* function-based one, on the same input.

PairOps == {"Valid", "ValidByFunctions"}

\* The inputs of the harness, the candidate tokens on their own and in
\* their places, and the documents made of pieces.
PairInit ==
  /\ \/ data \in Inputs
     \/ data \in NumTokens(MaxNum) \cup StrTokens(MaxStr)
     \/ data \in LitInputs
     \/ data \in StructInputs(MaxPieces, MaxSpaced)
                  \cup StructInvalid \cup StructValid
     \/ data \in WsInside(1)
  /\ call = "idle"
  /\ p = Idle
  /\ res = [o \in OpSet \cup PairOps |-> NoResult]
  /\ pos = 0

CallValidByFunctions ==
  /\ call = "idle"
  /\ pos = 1
  /\ call' = "ValidByFunctions"
  /\ p' = ParserInit
  /\ UNCHANGED <<data, res, pos>>

StepParser ==
  /\ call = "ValidByFunctions"
  /\ ~VDone(p)
  /\ Advance(ParserStep(data, p))

\* chkjson.go:23-27: false, or what validate returned.
ReturnParser ==
  /\ call = "ValidByFunctions"
  /\ VDone(p)
  /\ Leave(Result(p.pc = "true", <<>>, TRUE, FALSE, p.pc = "panic"))

PairNext ==
  \/ CallValid \/ StepValid \/ ReturnValid
  \/ CallValidByFunctions \/ StepParser \/ ReturnParser

PairSpec == PairInit /\ [][PairNext]_vars

\* C38: the two validator implementations in the repository agree on
\* every input: the function-based parser (Valid calling parser.validate,
\* beginVal and endVal with push, replace and pop) returns the same
\* boolean as the goto-driven single-function Valid, and both return.
C38_ValidatorsAgree ==
  Returned("Valid") /\ Returned("ValidByFunctions") =>
    /\ ~res["Valid"].aborted
    /\ ~res["ValidByFunctions"].aborted
    /\ res["ValidByFunctions"].ok = res["Valid"].ok

\* Both have accepted the objects nested one deeper than the stack's
\* inline array holds.
C38_Witness ==
  /\ Returned("Valid") /\ res["Valid"].ok
  /\ Returned("ValidByFunctions") /\ res["ValidByFunctions"].ok
  /\ data = NestObj(StackBase)

---------------------------------------------------------------------------
\* The two compactors side by side.

\* The stack-based AppendCompact and the packAny AppendCompact that was
\* given the same destination.
CompactorPairs ==
  {<<"StackAppendCompact", "AppendCompact">>,
   <<"StackAppendCompactSelf", "AppendCompactSelf">>}

\* C39: the two compactor implementations agree: for every input the
\* stack-based compactor (compactor.run with jsonp = false) and the
\* recursive span-copying packAny report the same ok flag, and for every
\* valid input they produce the same output bytes; neither panics.
C39_CompactorsAgree ==
  \A pr \in CompactorPairs :
    Returned(pr[1]) /\ Returned(pr[2]) =>
      /\ ~res[pr[1]].aborted /\ ~res[pr[2]].aborted
      /\ res[pr[1]].ok = res[pr[2]].ok
      /\ res[pr[2]].ok => res[pr[1]].out = res[pr[2]].out

\* A number with a fraction, with space around it, has gone through both
\* with the same bytes out.
C39_Witness ==
  /\ \E i \in 1..Len(data) : data[i] = Ch.dot
  /\ \E i \in 1..Len(data) : isSpace(data[i])
  /\ \A pr \in CompactorPairs :
       /\ Returned(pr[1]) /\ Returned(pr[2])
       /\ res[pr[1]].ok /\ res[pr[2]].ok
       /\ res[pr[1]].out = res[pr[2]].out
       /\ Len(res[pr[1]].out) < Len(data)

---------------------------------------------------------------------------
\* What AppendCompact(src[:0], src) stores, and where.

\* C40: for every input, valid or invalid, AppendCompact(src[:0], src)
\* writes only at indices below len(src) of src's backing array: no byte
\* is appended on a failure path (such as end of input right after a ','
\* inside an object) at index len(src) or beyond, so data the caller
\* holds in the array's spare capacity is never modified.  Every store of
\* the call is an append to dst, at index len(dst): dst never grows past
\* len(src), never leaves src's array, and the bytes of the array from
\* len(src) on stay as they were.
C40_WritesOnlyBelowLen ==
  call \in {"AppendCompactSelf", "StackAppendCompactSelf"} /\ p.pc # "panic" =>
    /\ DstLen(p) <= p.n
    /\ p.alias
    /\ SubSeq(p.mem, p.n + 1, Len(p.mem)) = Spare(Len(p.mem) - p.n)

====
